---- MODULE Spec2Model ----
(***************************************************************************)
(* The request/response multiplexer of the LDAP client (src/src/Client.ts): *)
(* message-id allocation, the pending-request table                         *)
(* (messageDetailsByMessageId), the socket event handlers wired by         *)
(* _onConnect, _send with its write callback and per-request timer, the     *)
(* response dispatch of _handleSendResponse, the message-parser error       *)
(* handler, the startTLS socket splice, and search with its paging loop     *)
(* (_sendSearch).                                                           *)
(*                                                                         *)
(* One action is one run of the JavaScript event loop: a call from the      *)
(* application, or one event of a socket, timer or the message parser,     *)
(* together with the promise continuations it releases.                    *)
(*                                                                         *)
(* The search filters (src/src/filters, FilterParser), RDN.equals and      *)
(* RDN.toString (src/dist/dn/RDN.js), and the request fields modifyDN and  *)
(* search compute from their arguments are functions of their arguments:   *)
(* each is an operator, applied by one action of SpecPure to arguments     *)
(* taken from a bounded set.  compare is checked on a client of its own,   *)
(* SpecCompare.                                                            *)
(***************************************************************************)
EXTENDS Integers, Sequences, FiniteSets, TLC

\* ---------------------------------------------------------------- bounds
MaxOps == 2        \* calls made on one Client
MaxSockets == 2    \* socket objects created by net.connect / tls.connect
MaxRecords == 1    \* SearchEntry + SearchReference records held at a time
MaxPages == 3      \* SearchRequests one search() issues before the cookie runs out
MaxSearches == 1   \* search() calls made on one Client
MaxPageRecords == 2  \* records delivered before a page of a followed search ends
MaxChildren == 2   \* children of one And or Or filter
MaxValueLen == 4   \* characters after the operator of a filter expression parsed
MaxAttrs == 2      \* name and value pairs of one RDN
MaxLimit == 3      \* largest sizeLimit and pageSize a search is given

\* ------------------------------------------------------------- constants
MAX_MESSAGE_ID == 2147483647

Success == 0

SizeLimitExceeded == 4

TimeLimitExceeded == 3

\* CompareResult
CompareFalse == 5

CompareTrue == 6

\* let pageSize = 100
DefaultPageSize == 100

\* the sizeLimit and the timeLimit of the searches that set one
SizeLimit == 1

TimeLimit == 1

VARIABLES
  messageId,   \* Client.messageId
  connected,   \* Client.connected
  socket,      \* Client.socket: index into sockets, 0 when undefined
  sockets,     \* every socket object created so far, in creation order
  table,       \* Client.messageDetailsByMessageId: messageId -> MessageDetails
  ops,         \* the calls made on the client and the promise _send gave each
  timeoutOpt,  \* clientOptions.timeout is non-zero
  last         \* history: the handler that ran last, what it ran for, the
               \* resolve/reject calls it made with their arguments, and the
               \* client state it started in

vars == <<messageId, connected, socket, sockets, table, ops, timeoutOpt, last>>

Ops == 1..MaxOps
OpKinds == {"add", "unbind", "abandon", "startTLS"}
Statuses == {Success, 32}   \* 32 (noSuchObject) stands for every non-success code
Payloads == {"a", "b"}

\* message.constructor.name of the request each call builds
MsgType(kind) ==
  CASE kind = "add" -> "AddRequest"
    [] kind = "unbind" -> "UnbindRequest"
    [] kind = "abandon" -> "AbandonRequest"
    [] kind = "startTLS" -> "ExtendedRequest"
    [] kind = "search" -> "SearchRequest"
    [] kind = "compare" -> "CompareRequest"
    [] OTHER -> "none"

Void == [type |-> "void"]
\* what a search() call carries besides its request: the options that
\* matter to the client, the size and cookie of its paged-results control, the
\* searchResult it fills, the SearchRequests issued so far, the timers of
\* its earlier pages that have not run yet, and, as history, the records
\* the server has delivered for it, in the order of delivery
NoSearch == [paged |-> FALSE, sizeLimit |-> 0, timeLimit |-> 0, input |-> "ok",
             size |-> 0, cookie |-> "", entries |-> << >>, references |-> << >>,
             sent |-> 0, earlier |-> 0, got |-> << >>]

IdleOp == [kind |-> "none", pc |-> "idle", id |-> 0, out |-> "none",
           timer |-> "off", wcb |-> FALSE, wsock |-> 0, srch |-> NoSearch]

NoCalls == << >>
Resolve(o, val) == [x \in {o} |-> [how |-> "resolved", val |-> val]]
Reject(o, err, kind) ==
  [x \in {o} |-> [how |-> "rejected", val |-> [err |-> err, type |-> MsgType(kind)]]]

\* the client state a handler starts in
Pre ==
  [messageId |-> messageId, connected |-> connected, socket |-> socket,
   sockets |-> sockets, table |-> table, ops |-> ops]

\* StatusCodeParser.parse(status, errorMessage)
StatusError(status) == [err |-> "status", status |-> status]

\* the searchResult of call op with the entries and references of the
\* resolved SearchResponse val pushed onto it
Collected(op, val) ==
  [searchEntries |-> op.srch.entries \o val.searchEntries,
   searchReferences |-> op.srch.references \o val.searchReferences]

SearchOutcomeNoLimits(op, val, cookie) ==
  IF val.status # Success
    THEN [how |-> "rejected", val |-> StatusError(val.status)]
  ELSE IF val.type # "SearchResponse"
    THEN [how |-> "rejected", val |-> [err |-> "typeError"]]
  ELSE IF /\ op.srch.paged
          /\ Len(val.searchEntries) > 0 \/ Len(val.searchReferences) > 0
          /\ cookie \notin {"none", ""}
    THEN [how |-> "continues", val |-> Collected(op, val)]
  ELSE [how |-> "resolved", val |-> Collected(op, val)]

SearchOutcomeTimeLimit(op, val, cookie) ==
  IF val.status # Success
       /\ ~(val.status = SizeLimitExceeded /\ op.srch.sizeLimit # 0)
       /\ ~(val.status = TimeLimitExceeded /\ op.srch.timeLimit # 0)
    THEN [how |-> "rejected", val |-> StatusError(val.status)]
  ELSE IF val.type # "SearchResponse"
    THEN [how |-> "rejected", val |-> [err |-> "typeError"]]
  ELSE IF /\ op.srch.paged
          /\ Len(val.searchEntries) > 0 \/ Len(val.searchReferences) > 0
          /\ cookie \notin {"none", ""}
    THEN [how |-> "continues", val |-> Collected(op, val)]
  ELSE [how |-> "resolved", val |-> Collected(op, val)]

\* _sendSearch after its _send resolved with val, whose paged-results
\* control carried cookie ("none": no such control): throw, return, or go
\* on with the next page
SearchOutcome(op, val, cookie) ==
  IF val.status # Success
       /\ ~(val.status = SizeLimitExceeded /\ op.srch.sizeLimit # 0)
    THEN [how |-> "rejected", val |-> StatusError(val.status)]
  ELSE IF val.type # "SearchResponse"
    THEN \* result.searchEntries is not iterable
      [how |-> "rejected", val |-> [err |-> "typeError"]]
  ELSE IF /\ op.srch.paged
          /\ Len(val.searchEntries) > 0 \/ Len(val.searchReferences) > 0
          /\ cookie \notin {"none", ""}
    THEN [how |-> "continues", val |-> Collected(op, val)]
  ELSE [how |-> "resolved", val |-> Collected(op, val)]

\* compare() with the statuses told apart as the other methods do
CompareOutcomeLikeOthers(val) ==
  IF val.status # Success
    THEN [how |-> "rejected", val |-> StatusError(val.status)]
    ELSE [how |-> "resolved", val |-> [type |-> "boolean", value |-> TRUE]]

\* compare() after its _send resolved with val: the switch on
\* response.status
CompareOutcome(val) ==
  CASE val.status = CompareTrue ->
         [how |-> "resolved", val |-> [type |-> "boolean", value |-> TRUE]]
    [] val.status = CompareFalse ->
         [how |-> "resolved", val |-> [type |-> "boolean", value |-> FALSE]]
    [] OTHER -> [how |-> "rejected", val |-> StatusError(val.status)]

OutcomeIgnoresStatus(op, call, cookie) ==
  IF call.how = "rejected" THEN call
  ELSE CASE op.kind = "search" -> SearchOutcome(op, call.val, cookie)
         [] op.kind = "startTLS" /\ call.val.status = Success ->
              [how |-> "continues", val |-> Void]
         [] OTHER -> [how |-> "resolved", val |-> Void]

\* what the public method of call op does once its _send promise is
\* settled by call: resolve, reject, or go on (startTLS to the TLS
\* handshake, a paged search to its next page)
Outcome(op, call, cookie) ==
  IF call.how = "rejected" THEN call
  ELSE CASE op.kind \in {"unbind", "abandon"} -> [how |-> "resolved", val |-> Void]
         [] op.kind = "search" -> SearchOutcome(op, call.val, cookie)
         [] op.kind = "compare" -> CompareOutcome(call.val)
         [] call.val.status # Success ->
              [how |-> "rejected", val |-> StatusError(call.val.status)]
         [] op.kind = "startTLS" -> [how |-> "continues", val |-> Void]
         [] OTHER -> [how |-> "resolved", val |-> Void]

\* the outcomes the public methods reach through the resolve/reject calls
\* of one handler: those of the calls not settled before
Rets(calls, cookie) ==
  [o \in {p \in DOMAIN calls : ops[p].out \in {"none", "pending"}} |->
     Outcome(ops[o], calls[o], cookie)]

\* the history record of one handler run: the event, the socket, call or
\* message it was for, the resolve/reject calls made, what the public
\* methods did in consequence, and the client state the handler started in
LogRets(ev, arg, calls, rets) ==
  [ev |-> ev, arg |-> arg, calls |-> calls, rets |-> rets, pre |-> Pre]

Log(ev, arg, calls) ==
  LogRets(ev, arg, calls, Rets(calls, IF ev = "response" THEN arg.payload ELSE "none"))

\* ------------------------------------------------------ pure helpers

NextMessageIdOffByOne(m) == IF m + 1 > MAX_MESSAGE_ID THEN 1 ELSE m + 1

\* _nextMessageId: pre-increment, reset to 1 on reaching MAX_MESSAGE_ID
NextMessageId(m) == IF m + 1 >= MAX_MESSAGE_ID THEN 1 ELSE m + 1

SettleOverwrite(st, how) == how

\* resolve/reject of the promise made in _send: only the first call settles it
Settle(st, how) == IF st = "pending" THEN how ELSE st

\* the awaiting public method resumes when its _send promise settles
SettleOp(op, how) ==
  [op EXCEPT !.out = Settle(op.out, how),
             !.pc = IF op.out = "pending" THEN "done" ELSE @]

\* the promises after a handler made the resolve/reject calls in calls
ApplyCalls(os, calls) ==
  [o \in Ops |-> IF o \in DOMAIN calls THEN SettleOp(os[o], calls[o].how) ELSE os[o]]

Remove(t, id) == [k \in DOMAIN t \ {id} |-> t[k]]
Insert(t, id, e) == [k \in DOMAIN t \cup {id} |-> IF k = id THEN e ELSE t[k]]

\* the socket that owns the transport of s: s itself, or the socket at the
\* bottom of the tls.connect({socket}) wrappings it sits on
RECURSIVE Root(_, _)
Root(ss, s) == IF ss[s].under = 0 THEN s ELSE Root(ss, ss[s].under)

\* the socket objects sharing one transport with s
Linked(ss, s) == {t \in DOMAIN ss : Root(ss, t) = Root(ss, s)}

\* socket.end()
End(ss, s) ==
  [t \in DOMAIN ss |->
     IF t \in Linked(ss, s) /\ ss[t].st \in {"connecting", "open"}
       THEN [ss[t] EXCEPT !.st = "ended"] ELSE ss[t]]

\* socket.destroy()
Destroy(ss, s) ==
  [t \in DOMAIN ss |->
     IF t \in Linked(ss, s) /\ ss[t].st # "closed"
       THEN [ss[t] EXCEPT !.st = "destroyed"] ELSE ss[t]]

\* _endSocket(s): the sockets afterwards
EndSocket(ss, s) ==
  LET ended == End(ss, s) IN [ended EXCEPT ![s].err = "noop"]

\* _endSocket(s): the connected flag afterwards
EndSocketConnected(conn, cur, s) == IF s = cur THEN FALSE ELSE conn

Alive(ss, s) == ss[s].st \in {"open", "ended"}

\* some socket still feeds the message parser
DataFlows == \E s \in DOMAIN sockets : sockets[s].data /\ Alive(sockets, s)

\* the records buffered in the table
Held ==
  LET RECURSIVE InTable(_)
      InTable(S) ==
        IF S = {} THEN 0
        ELSE LET k == CHOOSE x \in S : TRUE
             IN Len(table[k].searchEntries) + Len(table[k].searchReferences)
                  + InTable(S \ {k})
  IN InTable(DOMAIN table)

\* the message ids the server may answer with: those of pending requests
\* and one id that nothing is pending for
StrayId == IF 1 \in DOMAIN table THEN MAX_MESSAGE_ID ELSE 1
RespIds == DOMAIN table \cup {StrayId}

\* the responses the server may send: a status matters in a terminal
\* response only, a payload in an entry or a reference only
Responses ==
  [type : {"SearchEntry", "SearchReference"}, status : {Success}, payload : Payloads]
    \cup [type : {"SearchResponse", "Other"}, status : Statuses, payload : {"a"}]

\* the statuses and the paged-results cookies a SearchResponse may carry
\* ("none": the response has no paged-results control)
SearchStatuses == {Success, TimeLimitExceeded, SizeLimitExceeded, 32}

Cookies == {"none", "", "c1"}

\* what the server may send in answer to searches
SearchResponses ==
  [type : {"SearchEntry", "SearchReference"}, status : {Success}, payload : Payloads]
    \cup [type : {"SearchResponse"}, status : SearchStatuses, payload : Cookies]
    \cup [type : {"Other"}, status : {Success}, payload : {"none"}]

\* the MessageDetails _send stores
Details(o, cur) ==
  [op |-> o, sock |-> cur, searchEntries |-> << >>, searchReferences |-> << >>]

\* ------------------------------------------------------------ initial state

\* new Client(options): nothing sent, no socket
InitFresh ==
  /\ messageId = 1
  /\ connected = FALSE
  /\ socket = 0
  /\ sockets = << >>
  /\ table = << >>
  /\ ops = [o \in Ops |-> IdleOp]
  /\ timeoutOpt \in BOOLEAN
  /\ last = Log("new", 0, NoCalls)

Init == InitFresh

\* the first socket once connected and wired by _onConnect
WiredSocket ==
  [id |-> 1, st |-> "open", err |-> "socketError", wired |-> TRUE, data |-> TRUE,
   conn |-> FALSE, waiter |-> 1, tlsOp |-> 0, under |-> 0]

\* A client that has been running for long: its first request (id 2) is
\* still unanswered, and the id counter has since come close to
\* MAX_MESSAGE_ID or has just been reset to 1.
InitAged ==
  /\ messageId \in {MAX_MESSAGE_ID - 2, MAX_MESSAGE_ID - 1, 1}
  /\ connected = TRUE
  /\ socket = 1
  /\ sockets = <<WiredSocket>>
  /\ timeoutOpt \in BOOLEAN
  /\ table = Insert(<< >>, 2, Details(1, 1))
  /\ ops = [o \in Ops |->
              IF o = 1
                THEN [kind |-> "add", pc |-> "sent", id |-> 2, out |-> "pending",
                      timer |-> IF timeoutOpt THEN "armed" ELSE "off",
                      wcb |-> FALSE, wsock |-> 0,
                      srch |-> [NoSearch EXCEPT !.sent = 1]]
                ELSE IdleOp]
  /\ last = Log("running", 0, NoCalls)

InitWrap == InitFresh \/ InitAged

\* A client whose first call, a bind answered with Success, is over: it is
\* connected, the id counter stands at the bind's id, the table is empty,
\* and the bind's timer, if one was armed, has not run yet.
InitBound ==
  /\ messageId = 2
  /\ connected = TRUE
  /\ socket = 1
  /\ sockets = <<WiredSocket>>
  /\ timeoutOpt \in BOOLEAN
  /\ table = << >>
  /\ ops = [o \in Ops |->
              IF o = 1
                THEN [kind |-> "add", pc |-> "done", id |-> 2, out |-> "resolved",
                      timer |-> IF timeoutOpt THEN "armed" ELSE "off",
                      wcb |-> FALSE, wsock |-> 0,
                      srch |-> [NoSearch EXCEPT !.sent = 1]]
                ELSE IdleOp]
  /\ last = Log("running", 0, NoCalls)

InitSearch == InitFresh \/ InitBound

\* ------------------------------------------------------------------ _send

NewSocket(n, o, tlsOp, under) ==
  [id |-> IF tlsOp = 0 THEN n ELSE 0, st |-> "connecting",
   err |-> IF tlsOp = 0 THEN "connectErr" ELSE "tlsConnErr",
   wired |-> FALSE, data |-> FALSE, conn |-> (tlsOp = 0), waiter |-> o,
   tlsOp |-> tlsOp, under |-> under]

\* the rest of a public method once the connection step is over:
\* this._nextMessageId(), then this._send(request).  Gives the new
\* messageId, table and ops, and the calls made, from the client state it
\* runs in.
Proceed(o, kind, conn, cur, mid, tbl, os) ==
  LET id == NextMessageId(mid) IN
  IF ~conn \/ cur = 0
    THEN \* _send throws 'Socket connection not established'
      [messageId |-> id, table |-> tbl,
       ops |-> [os EXCEPT ![o] = [@ EXCEPT !.kind = kind, !.pc = "done", !.id = id,
                                            !.out = "rejected"]],
       calls |-> Reject(o, "notEstablished", kind)]
    ELSE
      [messageId |-> id,
       table |-> Insert(tbl, id, Details(o, cur)),
       ops |-> [os EXCEPT ![o] = [kind |-> kind, pc |-> "sent", id |-> id,
                  out |-> "pending",
                  timer |-> IF timeoutOpt THEN "armed" ELSE "off",
                  wcb |-> kind \in {"unbind", "abandon"},
                  wsock |-> IF kind \in {"unbind", "abandon"} THEN cur ELSE 0,
                  srch |-> [os[o].srch EXCEPT
                              !.sent = @ + 1,
                              !.earlier = IF os[o].timer = "armed" THEN @ + 1 ELSE @]]],
       calls |-> NoCalls]

\* the size search() gives its paged-results control (0: the search is not
\* paged and has no such control); options.paged is given as true here,
\* without a pageSize of its own
PageSize(srch) ==
  IF ~srch.paged THEN 0
  ELSE IF srch.sizeLimit > 1 THEN srch.sizeLimit - 1
  ELSE DefaultPageSize

BeginUnchecked(o, kind, conn, cur, mid, tbl, os) ==
  Proceed(o, kind, conn, cur, mid, tbl, os)

\* a public method from the point where its connection step is over.
\* search() first looks at its arguments and throws on a
\* PagedResultsControl among the controls or on a filter string that
\* FilterParser.parseString cannot parse; then, as every method, it
\* allocates the id and sends.
Begin(o, kind, conn, cur, mid, tbl, os) ==
  IF kind = "search" /\ os[o].srch.input # "ok"
    THEN [messageId |-> mid, table |-> tbl,
          ops |-> [os EXCEPT ![o] = [@ EXCEPT !.kind = kind, !.pc = "done",
                                               !.out = "rejected"]],
          calls |-> Reject(o, os[o].srch.input, kind)]
    ELSE IF kind = "search"
      THEN Proceed(o, kind, conn, cur, mid, tbl,
                   [os EXCEPT ![o].srch.size = PageSize(os[o].srch)])
    ELSE Proceed(o, kind, conn, cur, mid, tbl, os)

\* a method of this kind is entered with these search arguments
Start(o, kind, srch) ==
  /\ ops[o].pc = "idle"
  /\ \A p \in Ops : p < o => ops[p].pc # "idle"
  /\ IF kind = "unbind" /\ (~connected \/ socket = 0)
       THEN \* unbind(): return
         /\ ops' = [ops EXCEPT ![o] = [@ EXCEPT !.kind = kind, !.pc = "done"]]
         /\ last' = LogRets("call", o, NoCalls, Resolve(o, Void))
         /\ UNCHANGED <<messageId, connected, socket, sockets, table>>
       ELSE IF kind # "abandon" /\ ~connected
         THEN \* await this._connect(): a socket is created
           /\ Len(sockets) < MaxSockets
           /\ sockets' = Append(sockets, NewSocket(Len(sockets) + 1, o, 0, 0))
           /\ socket' = Len(sockets) + 1
           /\ ops' = [ops EXCEPT ![o] = [@ EXCEPT !.kind = kind, !.pc = "connect",
                                                  !.srch = srch]]
           /\ last' = Log("call", o, NoCalls)
           /\ UNCHANGED <<messageId, connected, table>>
         ELSE
           LET r == Begin(o, kind, connected, socket, messageId, table,
                          [ops EXCEPT ![o].srch = srch])
           IN /\ messageId' = r.messageId
              /\ table' = r.table
              /\ ops' = r.ops
              /\ last' = Log("call", o, r.calls)
              /\ UNCHANGED <<connected, socket, sockets>>
  /\ UNCHANGED timeoutOpt

\* A public method is called (add, unbind, startTLS), or _send is handed an
\* AbandonRequest.  Calls are numbered in call order.
Call(o, kind) ==
  /\ kind \in OpKinds
  /\ Start(o, kind, NoSearch)

\* the arguments search() is called with: plain, paged, with a sizeLimit,
\* paged with a sizeLimit, with a timeLimit, with a PagedResultsControl
\* among the controls, with a filter string that does not parse
SearchArgs ==
  { NoSearch,
    [NoSearch EXCEPT !.paged = TRUE],
    [NoSearch EXCEPT !.sizeLimit = SizeLimit],
    [NoSearch EXCEPT !.paged = TRUE, !.sizeLimit = SizeLimit],
    [NoSearch EXCEPT !.timeLimit = TimeLimit],
    [NoSearch EXCEPT !.input = "pagedResultsControl"],
    [NoSearch EXCEPT !.input = "filter"] }

\* search(baseDN, options, controls) is called.
CallSearch(o, srch) ==
  /\ Cardinality({p \in Ops : ops[p].kind = "search"}) < MaxSearches
  /\ Start(o, "search", srch)

\* _onConnect: the listeners of this.socket afterwards
OnConnectWire(ss, cur) ==
  IF cur = 0 THEN ss
  ELSE [ss EXCEPT ![cur] = [@ EXCEPT !.err = "socketError", !.conn = FALSE,
                                     !.wired = TRUE, !.data = TRUE]]

\* A connecting socket emits 'connect' / 'secureConnect'.  When its once
\* listener is still attached, _onConnect runs and the method that awaited
\* this socket's connect promise resumes.
SocketConnect(s) ==
  /\ s \in DOMAIN sockets
  /\ sockets[s].st = "connecting"
  /\ sockets[s].tlsOp = 0
  /\ LET opened == [sockets EXCEPT ![s].st = "open", ![s].conn = FALSE] IN
     IF sockets[s].conn
       THEN
         LET o == sockets[s].waiter
             r == Begin(o, ops[o].kind, TRUE, socket, messageId, table, ops)
         IN /\ sockets' = OnConnectWire(opened, socket)
            /\ connected' = TRUE
            /\ messageId' = r.messageId
            /\ table' = r.table
            /\ ops' = r.ops
            /\ last' = Log("connect", s, r.calls)
       ELSE
         /\ sockets' = opened
         /\ last' = Log("connect", s, NoCalls)
         /\ UNCHANGED <<connected, messageId, table, ops>>
  /\ UNCHANGED <<socket, timeoutOpt>>

\* ---------------------------------------------------- _handleSendResponse

\* the decoded message handed to resolve()
Resolved(type, status, e) ==
  IF type = "SearchResponse"
    THEN [type |-> type, status |-> status,
          searchEntries |-> e.searchEntries, searchReferences |-> e.searchReferences]
    ELSE [type |-> type, status |-> status]

\* startTLS after its exop resolved with Success: the data listener leaves
\* the current socket and tls.connect() wraps it
SpliceStart(ss, cur, o) ==
  LET undata == IF cur = 0 THEN ss ELSE [ss EXCEPT ![cur].data = FALSE]
  IN Append(undata, NewSocket(Len(ss) + 1, o, o, cur))

DispatchPrepends(tbl, id, type, payload) ==
  CASE type = "SearchEntry" ->
         [tbl EXCEPT ![id].searchEntries = <<payload>> \o @]
    [] type = "SearchReference" ->
         [tbl EXCEPT ![id].searchReferences = <<payload>> \o @]
    [] OTHER -> Remove(tbl, id)

DispatchKeepsEntry(tbl, id, type, payload) ==
  CASE type = "SearchEntry" ->
         [tbl EXCEPT ![id].searchEntries = Append(@, payload)]
    [] type = "SearchReference" ->
         [tbl EXCEPT ![id].searchReferences = Append(@, payload)]
    [] OTHER -> tbl

\* the table after a message with this id and type was dispatched
Dispatch(tbl, id, type, payload) ==
  CASE type = "SearchEntry" ->
         [tbl EXCEPT ![id].searchEntries = Append(@, payload)]
    [] type = "SearchReference" ->
         [tbl EXCEPT ![id].searchReferences = Append(@, payload)]
    [] OTHER -> Remove(tbl, id)

\* the resolve call the dispatch of a message makes
DispatchCalls(tbl, id, type, status) ==
  IF type \in {"SearchResponse", "Other"}
    THEN Resolve(tbl[id].op, Resolved(type, status, tbl[id]))
    ELSE NoCalls

\* the decoded message as the history records it
Msg(id, type, status, payload) ==
  [id |-> id, type |-> type, status |-> status, payload |-> payload]

DropSettlesOldest(id, type) ==
  LET o == CHOOSE p \in Ops : \A q \in Ops : ops[q].out = "pending" => ops[p].out = "pending"
  IN /\ ops' = ApplyCalls(ops, Resolve(o, Void))
     /\ last' = Log("drop", Msg(id, type, Success, "a"), NoCalls)
     /\ UNCHANGED <<messageId, connected, socket, sockets, table>>

\* no MessageDetails for the message id: logDebug('Unable to find details
\* related to message response'), nothing else
Drop(id, type) ==
  /\ last' = Log("drop", Msg(id, type, Success, "a"), NoCalls)
  /\ UNCHANGED <<messageId, connected, socket, sockets, table, ops>>

NextPageForgets(os, o, val, cookie) ==
  [os EXCEPT ![o].srch = [@ EXCEPT !.cookie = cookie,
                                   !.entries = val.searchEntries,
                                   !.references = val.searchReferences]]

\* the calls once call o's search has taken the server's cookie into its
\* paged-results control and the page's entries and references into its
\* searchResult
NextPage(os, o, val, cookie) ==
  [os EXCEPT ![o].srch = [@ EXCEPT !.cookie = cookie,
                                   !.entries = @ \o val.searchEntries,
                                   !.references = @ \o val.searchReferences]]

\* history: call o's search, still pending, has been delivered one more
\* record
Heard(os, o, type, payload) ==
  IF /\ os[o].kind = "search"
     /\ os[o].out = "pending"
     /\ type \in {"SearchEntry", "SearchReference"}
    THEN [os EXCEPT ![o].srch.got = Append(@, [type |-> type, payload |-> payload])]
    ELSE os

\* The message parser emits 'message': a decoded response with messageId
\* id; the server has at most n records outstanding.
Deliver(n, id, type, status, payload) ==
  /\ DataFlows
  /\ IF id \notin DOMAIN table
       THEN type = "Other" /\ status = Success /\ Drop(id, type)
       ELSE
         LET o == table[id].op
             terminal == type \in {"SearchResponse", "Other"}
             calls == DispatchCalls(table, id, type, status)
             splice == /\ terminal
                       /\ ops[o].kind = "startTLS"
                       /\ ops[o].out = "pending"
                       /\ status = Success
             \* a paged search goes on: _sendSearch calls itself
             paging == /\ terminal
                       /\ ops[o].kind = "search"
                       /\ ops[o].out = "pending"
                       /\ SearchOutcome(ops[o], calls[o].val, payload).how = "continues"
             r == Proceed(o, "search", connected, socket, messageId,
                          Dispatch(table, id, type, payload),
                          NextPage(ApplyCalls(ops, calls), o, calls[o].val, payload))
         IN /\ ~terminal => Held < n
            /\ splice => Len(sockets) < MaxSockets
            /\ paging => ops[o].srch.sent < MaxPages
            /\ IF paging
                 THEN /\ messageId' = r.messageId
                      /\ table' = r.table
                      /\ ops' = r.ops
                      /\ last' = LogRets("response", Msg(id, type, status, payload),
                                         calls,
                                         IF r.calls = NoCalls THEN Rets(calls, payload)
                                         ELSE r.calls)
                 ELSE /\ table' = Dispatch(table, id, type, payload)
                      /\ ops' = IF splice
                                  THEN [ApplyCalls(ops, calls) EXCEPT ![o].pc = "tls"]
                                  ELSE Heard(ApplyCalls(ops, calls), o, type, payload)
                      /\ last' = Log("response", Msg(id, type, status, payload), calls)
                      /\ UNCHANGED messageId
            /\ sockets' = IF splice THEN SpliceStart(sockets, socket, o) ELSE sockets
            /\ UNCHANGED <<connected, socket>>
  /\ UNCHANGED timeoutOpt

Response(id, type, status, payload) == Deliver(MaxRecords, id, type, status, payload)

ParserErrorKeepsEntry(id) ==
  /\ DataFlows
  /\ IF id \in DOMAIN table
       THEN LET calls == Reject(table[id].op, "parser", ops[table[id].op].kind) IN
            /\ ops' = ApplyCalls(ops, calls)
            /\ last' = Log("parserError", id, calls)
            /\ UNCHANGED table
       ELSE /\ last' = Log("parserDrop", id, NoCalls)
            /\ UNCHANGED <<table, ops>>
  /\ UNCHANGED <<messageId, connected, socket, sockets, timeoutOpt>>

ParserErrorSweeps(id) ==
  /\ DataFlows
  /\ IF id \in DOMAIN table
       THEN LET calls == [o \in {table[k].op : k \in DOMAIN table} |->
                            [how |-> "rejected",
                             val |-> [err |-> "parser", type |-> MsgType(ops[o].kind)]]]
            IN
            /\ table' = << >>
            /\ ops' = ApplyCalls(ops, calls)
            /\ connected' = FALSE
            /\ last' = Log("parserError", id, calls)
       ELSE /\ last' = Log("parserDrop", id, NoCalls)
            /\ UNCHANGED <<table, ops, connected>>
  /\ UNCHANGED <<messageId, socket, sockets, timeoutOpt>>

\* The message parser emits 'error' carrying messageDetails.messageId = id.
ParserError(id) ==
  /\ DataFlows
  /\ IF id \in DOMAIN table
       THEN LET calls == Reject(table[id].op, "parser", ops[table[id].op].kind) IN
            /\ table' = Remove(table, id)
            /\ ops' = ApplyCalls(ops, calls)
            /\ last' = Log("parserError", id, calls)
       ELSE /\ last' = Log("parserDrop", id, NoCalls)
            /\ UNCHANGED <<table, ops>>
  /\ UNCHANGED <<messageId, connected, socket, sockets, timeoutOpt>>

\* ------------------------------------------------- timer and write callback

\* The setTimeout callback armed by _send for call o runs.
Timeout(o) ==
  /\ ops[o].timer = "armed"
  /\ LET id == ops[o].id
         fired == [ops EXCEPT ![o].timer = "off"]
         calls == Reject(o, "timeout", ops[o].kind)
     IN IF id \in DOMAIN table
          THEN /\ sockets' = EndSocket(sockets, table[id].sock)
               /\ connected' = EndSocketConnected(connected, socket, table[id].sock)
               /\ ops' = ApplyCalls(fired, calls)
               /\ last' = Log("timeout", o, calls)
          ELSE /\ ops' = fired
               /\ last' = Log("timeout", o, NoCalls)
               /\ UNCHANGED <<sockets, connected>>
  /\ UNCHANGED <<messageId, socket, table, timeoutOpt>>

\* The setTimeout callback armed by _send for an earlier page of call o's
\* paged search runs.  The closure reads message.messageId, and the one
\* SearchRequest object has been given the id of the latest page since; the
\* messageReject it calls belongs to the earlier page's promise, which is
\* settled.
TimeoutEarlier(o) ==
  /\ ops[o].srch.earlier > 0
  /\ LET id == ops[o].id IN
     IF id \in DOMAIN table
       THEN /\ sockets' = EndSocket(sockets, table[id].sock)
            /\ connected' = EndSocketConnected(connected, socket, table[id].sock)
       ELSE UNCHANGED <<sockets, connected>>
  /\ ops' = [ops EXCEPT ![o].srch.earlier = @ - 1]
  /\ last' = Log("timeoutEarlier", o, NoCalls)
  /\ UNCHANGED <<messageId, socket, table, timeoutOpt>>

\* call o once its write callback has run
Written(o) == [ops EXCEPT ![o].wcb = FALSE, ![o].wsock = 0]

AbandonWrittenWaits(o) ==
  /\ ops' = Written(o)
  /\ last' = Log("written", o, NoCalls)
  /\ UNCHANGED <<table, sockets, connected>>

\* the write callback for an AbandonRequest: delete the entry, resolve()
AbandonWritten(o) ==
  /\ table' = Remove(table, ops[o].id)
  /\ ops' = ApplyCalls(Written(o), Resolve(o, Void))
  /\ last' = Log("written", o, Resolve(o, Void))
  /\ UNCHANGED <<sockets, connected>>

UnbindWrittenKeepsOpen(o) ==
  /\ ops' = Written(o)
  /\ last' = Log("written", o, NoCalls)
  /\ UNCHANGED <<table, sockets, connected>>

\* the write callback for an UnbindRequest:
\* if (this.socket) this._endSocket(this.socket)
UnbindWritten(o) ==
  /\ ops' = Written(o)
  /\ sockets' = IF socket = 0 THEN sockets ELSE EndSocket(sockets, socket)
  /\ connected' = IF socket = 0 THEN connected
                  ELSE EndSocketConnected(connected, socket, socket)
  /\ last' = Log("written", o, NoCalls)
  /\ UNCHANGED table

\* The callback of this.socket.write() runs: the bytes of call o were written.
WriteCallback(o) ==
  /\ ops[o].wcb
  /\ Alive(sockets, ops[o].wsock)
  /\ IF ops[o].kind = "abandon" THEN AbandonWritten(o) ELSE UnbindWritten(o)
  /\ UNCHANGED <<messageId, socket, timeoutOpt>>

\* ------------------------------------------------------- socket events

SweepCallsAllRejected(os, tbl, err, keys) ==
  [o \in {tbl[k].op : k \in keys} |->
     [how |-> "rejected", val |-> [err |-> err, type |-> MsgType(os[o].kind)]]]

\* the resolve/reject calls of a sweep over the table entries keys:
\* resolve() for an UnbindRequest, reject(new Error(... Message type ...))
\* for any other message
SweepCalls(os, tbl, err, keys) ==
  [o \in {tbl[k].op : k \in keys} |->
     IF os[o].kind = "unbind"
       THEN [how |-> "resolved", val |-> Void]
       ELSE [how |-> "rejected", val |-> [err |-> err, type |-> MsgType(os[o].kind)]]]

\* the sockets after the TLS socket t of startTLS failed before
\* 'secureConnect' and its once('error') listener ran
TlsConnectFailed(failed, t, torn) ==
  LET bare == [failed EXCEPT ![t].err = "none"] IN
  IF torn /\ failed[t].under # 0 THEN Destroy(bare, failed[t].under) ELSE bare

\* socketError without `delete this.messageDetailsByMessageId[key]`: the
\* requests are settled and their entries stay in the table
SocketErrorKeepsEntries(s) ==
  /\ s \in DOMAIN sockets
  /\ sockets[s].st \in {"connecting", "open", "ended"}
  /\ sockets[s].err = "socketError"
  /\ LET calls == SweepCalls(ops, table, "socketError", DOMAIN table)
         failed == [sockets EXCEPT ![s].st = "errored"]
     IN /\ ops' = ApplyCalls(ops, calls)
        /\ table' = table
        /\ sockets' = IF socket = 0 THEN failed ELSE Destroy(failed, socket)
        /\ last' = Log("socketError", s, calls)
  /\ UNCHANGED <<messageId, connected, socket, timeoutOpt>>

\* A socket emits 'error'; what runs is the listener attached at that time.
SocketError(s) ==
  /\ s \in DOMAIN sockets
  /\ sockets[s].st \in {"connecting", "open", "ended"}
  /\ sockets[s].err # "none"
  /\ LET l == sockets[s].err
         w == sockets[s].waiter
         failed == [sockets EXCEPT ![s].st = "errored"]
     IN CASE l = "connectErr" ->
               \* once('error') of _connect: reject(err)
               /\ sockets' = [failed EXCEPT ![s].err = "none"]
               /\ IF ops[w].pc = "connect"
                    THEN /\ ops' = [ops EXCEPT ![w].pc = "done", ![w].out = "rejected"]
                         /\ last' = Log("error", s, Reject(w, "connect", ops[w].kind))
                    ELSE /\ ops' = ops
                         /\ last' = Log("error", s, NoCalls)
               /\ UNCHANGED table
          [] l = "socketError" ->
               LET calls == SweepCalls(ops, table, "socketError", DOMAIN table) IN
               /\ ops' = ApplyCalls(ops, calls)
               /\ table' = << >>
               /\ sockets' = IF socket = 0 THEN failed ELSE Destroy(failed, socket)
               /\ last' = Log("socketError", s, calls)
          [] l = "noop" ->
               /\ sockets' = failed
               /\ last' = Log("error", s, NoCalls)
               /\ UNCHANGED <<ops, table>>
          [] l = "tls" ->
               \* the listener startTLS left on the TLS socket
               /\ sockets' = IF sockets[s].under = 0 THEN failed
                             ELSE Destroy(failed, sockets[s].under)
               /\ last' = Log("error", s, NoCalls)
               /\ UNCHANGED <<ops, table>>
          [] l = "tlsConnErr" ->
               \* once('error') of startTLS: removeAllListeners(); reject(err).
               \* The handler leaves the wrapped socket alone; whether the
               \* TLS layer takes it down with the failed TLS socket is the
               \* runtime's choice.
               /\ \E torn \in BOOLEAN :
                    sockets' = TlsConnectFailed(failed, s, torn)
               /\ ops' = [ops EXCEPT ![sockets[s].tlsOp].pc = "done"]
               /\ last' = LogRets("tlsError", s, NoCalls,
                                  Reject(sockets[s].tlsOp, "tls", "startTLS"))
               /\ UNCHANGED table
  /\ UNCHANGED <<messageId, connected, socket, timeoutOpt>>

\* A wired socket emits 'end' (the server half-closed) or 'timeout':
\* socketEnd / socketTimeout answer with this.end().
SocketEnd(s) ==
  /\ s \in DOMAIN sockets
  /\ sockets[s].wired
  /\ sockets[s].st = "open"
  /\ sockets' = End(sockets, s)
  /\ last' = Log("end", s, NoCalls)
  /\ UNCHANGED <<messageId, connected, socket, table, ops, timeoutOpt>>

CloseKeysAll(tbl, ss, ids) == DOMAIN tbl

CloseKeysByIndex(tbl, ss, ids) == {k \in DOMAIN tbl : tbl[k].sock \in ids}

\* the table entries socketClose sweeps: those whose socket has one of ids
CloseKeys(tbl, ss, ids) == {k \in DOMAIN tbl : ss[tbl[k].sock].id \in ids}

\* A transport closes: its socket, and a TLS socket spliced onto it, emit
\* 'close'.  socketClose runs on each of them that _onConnect wired.
SocketClose(s) ==
  /\ s \in DOMAIN sockets
  /\ sockets[s].under = 0
  /\ sockets[s].st \in {"open", "ended", "errored", "destroyed"}
  /\ LET closing == Linked(sockets, s)
         handled == {t \in closing : sockets[t].wired}
         ids == {sockets[t].id : t \in handled}
         keys == CloseKeys(table, sockets, ids)
         calls == SweepCalls(ops, table, "closed", keys)
     IN /\ sockets' = [t \in DOMAIN sockets |->
                         IF t \notin closing THEN sockets[t]
                         ELSE IF t \notin handled THEN [sockets[t] EXCEPT !.st = "closed"]
                         ELSE [sockets[t] EXCEPT !.st = "closed", !.wired = FALSE,
                                 !.data = FALSE,
                                 !.err = IF @ = "socketError" THEN "none" ELSE @]]
        /\ connected' = IF socket \in handled THEN FALSE ELSE connected
        /\ socket' = IF socket \in handled THEN 0 ELSE socket
        /\ ops' = ApplyCalls(ops, calls)
        /\ table' = [k \in DOMAIN table \ keys |-> table[k]]
        /\ last' = Log(IF handled = {} THEN "closeUnwired" ELSE "close", s, calls)
  /\ UNCHANGED <<messageId, timeoutOpt>>

SplicedIdFresh(ss, t) == 0

\* the id of TLS socket t once startTLS has resumed:
\* if (originalSocket) this.socket.id = originalSocket.id
SplicedId(ss, t) == IF ss[t].under = 0 THEN 0 ELSE ss[ss[t].under].id

\* The TLS socket of startTLS emits 'secureConnect': the splice completes.
SecureConnect(t) ==
  /\ t \in DOMAIN sockets
  /\ sockets[t].tlsOp # 0
  /\ sockets[t].st = "connecting"
  /\ sockets[t].err = "tlsConnErr"
  /\ sockets[t].under # 0 => Alive(sockets, sockets[t].under)
  /\ sockets' = [sockets EXCEPT ![t] =
                   [@ EXCEPT !.st = "open", !.err = "tls", !.data = TRUE,
                             !.id = SplicedId(sockets, t)]]
  /\ socket' = t
  /\ ops' = [ops EXCEPT ![sockets[t].tlsOp].pc = "done"]
  /\ last' = LogRets("secureConnect", t, NoCalls, Resolve(sockets[t].tlsOp, Void))
  /\ UNCHANGED <<messageId, connected, table, timeoutOpt>>

Next ==
  \/ \E o \in Ops, k \in OpKinds : Call(o, k)
  \/ \E s \in 1..MaxSockets : SocketConnect(s)
  \/ \E id \in RespIds, m \in Responses :
        Response(id, m.type, m.status, m.payload)
  \/ \E id \in RespIds : ParserError(id)
  \/ \E o \in Ops : Timeout(o)
  \/ \E o \in Ops : WriteCallback(o)
  \/ \E s \in 1..MaxSockets : SocketError(s)
  \/ \E s \in 1..MaxSockets : SocketEnd(s)
  \/ \E s \in 1..MaxSockets : SocketClose(s)
  \/ \E s \in 1..MaxSockets : SecureConnect(s)

Spec == Init /\ [][Next]_vars

\* the same client, started fresh or observed late in its life
SpecWrap == InitWrap /\ [][Next]_vars

\* The 'close' event of a socket that has been torn down (ended by the
\* client, failed, or destroyed) is delivered.
TornClose(s) ==
  /\ s \in DOMAIN sockets
  /\ sockets[s].st \in {"ended", "errored", "destroyed"}
  /\ SocketClose(s)

\* the client under a runtime that delivers the close event of every socket
\* that was torn down
SpecLive ==
  Init /\ [][Next]_vars /\ \A s \in 1..MaxSockets : WF_vars(TornClose(s))

\* a client used for searches
NextSearch ==
  \/ \E o \in Ops, a \in SearchArgs : CallSearch(o, a)
  \/ \E s \in 1..MaxSockets : SocketConnect(s)
  \/ \E id \in RespIds, m \in SearchResponses :
        Response(id, m.type, m.status, m.payload)
  \/ \E id \in RespIds : ParserError(id)
  \/ \E o \in Ops : Timeout(o)
  \/ \E o \in Ops : TimeoutEarlier(o)
  \/ \E s \in 1..MaxSockets : SocketError(s)
  \/ \E s \in 1..MaxSockets : SocketEnd(s)
  \/ \E s \in 1..MaxSockets : SocketClose(s)

SpecSearch == InitSearch /\ [][NextSearch]_vars

\* A connected client, created without a timeout option, whose first
\* request, an add with message id 2, is waiting for its response.
InitPending ==
  /\ messageId = 2
  /\ connected = TRUE
  /\ socket = 1
  /\ sockets = <<WiredSocket>>
  /\ timeoutOpt = FALSE
  /\ table = Insert(<< >>, 2, Details(1, 1))
  /\ ops = [o \in Ops |->
              IF o = 1
                THEN [kind |-> "add", pc |-> "sent", id |-> 2, out |-> "pending",
                      timer |-> "off", wcb |-> FALSE, wsock |-> 0,
                      srch |-> [NoSearch EXCEPT !.sent = 1]]
                ELSE IdleOp]
  /\ last = Log("running", 0, NoCalls)

\* the searches whose results are followed record by record: plain and paged
OrderArgs == {NoSearch, [NoSearch EXCEPT !.paged = TRUE]}

\* what the server sends while a search and another request are pending
OrderResponses ==
  [type : {"SearchEntry", "SearchReference"}, status : {Success}, payload : Payloads]
    \cup [type : {"SearchResponse"}, status : {Success}, payload : {"", "c1"}]
    \cup [type : {"Other"}, status : {Success}, payload : {"none"}]

\* a search made next to a pending request, the server delivering up to
\* MaxPageRecords records before it completes a page
NextOrder ==
  \/ \E o \in Ops, a \in OrderArgs : CallSearch(o, a)
  \/ \E id \in RespIds, m \in OrderResponses :
        Deliver(MaxPageRecords, id, m.type, m.status, m.payload)
  \/ \E s \in 1..MaxSockets : SocketClose(s)

SpecOrder == InitPending /\ [][NextOrder]_vars

\* a client used for compares: compare(dn, attribute, value) is called,
\* and the server answers with a CompareResponse of status compareTrue,
\* compareFalse, success or another (32, noSuchObject)
NextCompare ==
  \/ \E o \in Ops : Start(o, "compare", NoSearch)
  \/ \E s \in 1..MaxSockets : SocketConnect(s)
  \/ \E id \in RespIds, status \in {CompareTrue, CompareFalse, Success, 32} :
        Deliver(MaxRecords, id, "Other", status, "a")
  \/ \E s \in 1..MaxSockets : SocketError(s)
  \/ \E s \in 1..MaxSockets : SocketClose(s)

SpecCompare == Init /\ [][NextCompare]_vars

\* the client whose transport becomes ready: a socket that is connecting
\* emits 'connect', and the close event of a torn-down socket is delivered
SpecReady ==
  /\ Init
  /\ [][Next]_vars
  /\ \A s \in 1..MaxSockets : WF_vars(SocketConnect(s))
  /\ \A s \in 1..MaxSockets : WF_vars(TornClose(s))

\* ======================================================================
\* Filters and relative distinguished names
\* ======================================================================
\* Strings are sequences of UTF-16 code units; the characters the filter
\* and RDN code tells apart, with letters and digits to build names and
\* values from.
Ord ==
  ("(" :> 40) @@ (")" :> 41) @@ ("*" :> 42) @@ ("\\" :> 92) @@ ("&" :> 38)
    @@ ("|" :> 124) @@ ("!" :> 33) @@ ("=" :> 61) @@ ("2" :> 50) @@ ("4" :> 52)
    @@ ("1" :> 49) @@ ("8" :> 56) @@ ("9" :> 57) @@ ("5" :> 53)
    @@ ("a" :> 97) @@ ("b" :> 98) @@ ("c" :> 99) @@ ("n" :> 110) @@ ("o" :> 111)
    @@ ("u" :> 117) @@ ("A" :> 65) @@ ("C" :> 67) @@ ("N" :> 78) @@ ("J" :> 74)
    @@ ("j" :> 106) @@ ("e" :> 101) @@ ("t" :> 116) @@ ("l" :> 108) @@ ("s" :> 115)
    @@ ("i" :> 105) @@ ("m" :> 109) @@ ("d" :> 100) @@ ("O" :> 79)
    @@ (">" :> 62) @@ ("<" :> 60) @@ ("~" :> 126) @@ ("-" :> 45) @@ ("_" :> 95)
    @@ ("0" :> 48) @@ ("z" :> 122) @@ ("6" :> 54)
    @@ ("," :> 44) @@ ("#" :> 35) @@ ("+" :> 43) @@ (";" :> 59)
    @@ ("\"" :> 34) @@ (" " :> 32) @@ (":" :> 58)

\* the string with these characters
Str(chars) == [i \in 1..Len(chars) |-> Ord[chars[i]]]

\* String.prototype.toLowerCase on the letters A..Z
ToLowerCase(str) ==
  [i \in 1..Len(str) |-> IF str[i] >= 65 /\ str[i] <= 90 THEN str[i] + 32 ELSE str[i]]

\* the sequences of at most n elements of a set
SeqsUpTo(S, n) == UNION {[1..k -> S] : k \in 0..n}

\* ------------------------------------------------------------- evaluation

\* Filter.getObjectValue: the value the entry holds under the attribute
GetObjectValue(objectToCheck, attribute) ==
  IF attribute \in DOMAIN objectToCheck
    THEN [defined |-> TRUE, value |-> objectToCheck[attribute]]
    ELSE [defined |-> FALSE, value |-> << >>]

\* EqualityFilter.matches, for a string value
EqualityFilterMatches(filter, objectToCheck, strictAttributeCase) ==
  LET objectToCheckValue == GetObjectValue(objectToCheck, filter.attribute)
  IN IF objectToCheckValue.defined
       THEN IF strictAttributeCase
              THEN filter.value = objectToCheckValue.value
              ELSE ToLowerCase(filter.value) = ToLowerCase(objectToCheckValue.value)
       ELSE FALSE

RECURSIVE Matches(_, _, _)

\* AndFilter.matches
AndFilterMatches(filter, objectToCheck, strictAttributeCase) ==
  IF Len(filter.filters) = 0
    THEN TRUE
    ELSE \A i \in 1..Len(filter.filters) :
           Matches(filter.filters[i], objectToCheck, strictAttributeCase)

\* OrFilter.matches
OrFilterMatches(filter, objectToCheck, strictAttributeCase) ==
  IF Len(filter.filters) = 0
    THEN TRUE
    ELSE \E i \in 1..Len(filter.filters) :
           Matches(filter.filters[i], objectToCheck, strictAttributeCase)

\* NotFilter.matches
NotFilterMatches(filter, objectToCheck, strictAttributeCase) ==
  ~Matches(filter.filter, objectToCheck, strictAttributeCase)

\* filter.matches(objectToCheck, strictAttributeCase), by the filter's class
Matches(filter, objectToCheck, strictAttributeCase) ==
  CASE filter.type = "and" -> AndFilterMatches(filter, objectToCheck, strictAttributeCase)
    [] filter.type = "or" -> OrFilterMatches(filter, objectToCheck, strictAttributeCase)
    [] filter.type = "not" -> NotFilterMatches(filter, objectToCheck, strictAttributeCase)
    [] OTHER -> EqualityFilterMatches(filter, objectToCheck, strictAttributeCase)

\* new EqualityFilter({ attribute, value })
EqualityFilter(attribute, value) ==
  [type |-> "equalityMatch", attribute |-> attribute, value |-> value]

\* new AndFilter({ filters })
AndFilter(filters) == [type |-> "and", filters |-> filters]

\* new OrFilter({ filters })
OrFilter(filters) == [type |-> "or", filters |-> filters]

\* new NotFilter({ filter })
NotFilter(filter) == [type |-> "not", filter |-> filter]

\* the filters built from these in one more level of And, Or and Not,
\* And and Or with up to n children
Composed(F, n) ==
  F \cup {AndFilter(q) : q \in SeqsUpTo(F, n)}
    \cup {OrFilter(q) : q \in SeqsUpTo(F, n)}
    \cup {NotFilter(f) : f \in F}

\* each of these filters alone, under an And, beside another filter
\* under an Or, and under a Not
Wrapped(F, other) ==
  F \cup {AndFilter(<<f>>) : f \in F}
    \cup {OrFilter(<<other, f>>) : f \in F}
    \cup {NotFilter(f) : f \in F}

\* the filters evaluated: And, Or and Not, two levels deep, over two
\* equality filters on cn
MatchFilters ==
  Wrapped(Composed({EqualityFilter(Str(<<"c", "n">>), Str(<<"a">>)),
                    EqualityFilter(Str(<<"c", "n">>), Str(<<"b">>))},
                   MaxChildren),
          EqualityFilter(Str(<<"c", "n">>), Str(<<"b">>)))

\* the entries they are evaluated on
MatchObjects ==
  {<< >>, [k \in {Str(<<"c", "n">>)} |-> Str(<<"a">>)],
   [k \in {Str(<<"c", "n">>)} |-> Str(<<"A">>)]}

\* the calls of filter.matches
MatchInputs ==
  [fn : {"matches"}, filter : MatchFilters, objectToCheck : MatchObjects,
   strictAttributeCase : BOOLEAN]

\* ---------------------------------------------------------- BER encoding

\* SearchFilter: the context-specific constructed tag of each variant
SearchFilter == [and |-> 160, or |-> 161, not |-> 162, equalityMatch |-> 163]

\* Ber.OctetString
OctetString == 4

\* BerWriter.writeString: tag, length, the bytes of the string
WriteString(str) == <<OctetString, Len(str)>> \o str

\* the concatenation of the sequences of a sequence
RECURSIVE Flatten(_)
Flatten(seqs) == IF Len(seqs) = 0 THEN << >> ELSE Head(seqs) \o Flatten(Tail(seqs))

RECURSIVE Write(_)

\* filter.writeFilter(writer), by the filter's class
WriteFilter(filter) ==
  CASE filter.type \in {"and", "or"} ->
         Flatten([i \in 1..Len(filter.filters) |-> Write(filter.filters[i])])
    [] filter.type = "not" -> Write(filter.filter)
    [] OTHER -> WriteString(filter.attribute) \o WriteString(filter.value)

\* Filter.write: startSequence(type), writeFilter, endSequence
Write(filter) ==
  LET body == WriteFilter(filter)
  IN <<SearchFilter[filter.type], Len(body)>> \o body

\* BerReader.readSequence at offset: the tag, the length, the new offset
ReadSequence(buf, offset) ==
  [tag |-> buf[offset + 1], length |-> buf[offset + 2], offset |-> offset + 2]

\* BerReader.readString at offset: null unless an OctetString is there
ReadString(buf, offset) ==
  IF offset + 2 > Len(buf) \/ buf[offset + 1] # OctetString
    THEN [null |-> TRUE, value |-> << >>, offset |-> offset]
    ELSE [null |-> FALSE,
          value |-> SubSeq(buf, offset + 3, offset + 2 + buf[offset + 2]),
          offset |-> offset + 2 + buf[offset + 2]]

EqualityFilterParseFilterKeepsCase(buf, offset) ==
  LET a == ReadString(buf, offset)
      v == ReadString(buf, a.offset)
  IN [filter |-> EqualityFilter(a.value, v.value), offset |-> v.offset]

\* EqualityFilter.parseFilter: the filter read and the reader's new offset
EqualityFilterParseFilter(buf, offset) ==
  LET a == ReadString(buf, offset)
      attribute == ToLowerCase(a.value)
      v == ReadString(buf, a.offset)
  IN [filter |-> EqualityFilter(attribute,
                                IF attribute = Str(<<"o", "b", "j", "e", "c", "t",
                                                     "c", "l", "a", "s", "s">>)
                                  THEN ToLowerCase(v.value)
                                  ELSE v.value),
      offset |-> v.offset]

RECURSIVE Parse(_, _)
RECURSIVE ParseSet(_, _, _)

\* FilterParser._parseSet: the filters read up to end
ParseSet(buf, offset, end) ==
  IF offset < end
    THEN LET first == Parse(buf, offset)
             rest == ParseSet(buf, first.offset, end)
         IN [filters |-> <<first.filter>> \o rest.filters, offset |-> rest.offset]
    ELSE [filters |-> << >>, offset |-> offset]

\* FilterParser.parse: the filter read at offset and the reader's new offset
Parse(buf, offset) ==
  LET seq == ReadSequence(buf, offset)
  IN CASE seq.tag = SearchFilter.and ->
            LET set == ParseSet(buf, seq.offset, seq.offset + seq.length)
            IN [filter |-> AndFilter(set.filters), offset |-> set.offset]
       [] seq.tag = SearchFilter.or ->
            LET set == ParseSet(buf, seq.offset, seq.offset + seq.length)
            IN [filter |-> OrFilter(set.filters), offset |-> set.offset]
       [] seq.tag = SearchFilter.not ->
            LET innerFilter == Parse(buf, seq.offset)
            IN [filter |-> NotFilter(innerFilter.filter), offset |-> innerFilter.offset]
       [] seq.tag = SearchFilter.equalityMatch ->
            EqualityFilterParseFilter(buf, seq.offset)
       [] OTHER -> [filter |-> [type |-> "error"], offset |-> seq.offset]

\* the filters encoded: equality filters whose attribute names and values
\* have letters of either case, objectClass among them, under And, Or and
\* Not, two levels deep
BinaryFilters ==
  Wrapped(Composed({EqualityFilter(Str(<<"c", "n">>), Str(<<"J", "i", "m">>)),
                    EqualityFilter(Str(<<"C", "N">>), Str(<<"a">>)),
                    EqualityFilter(Str(<<"o", "b", "j", "e", "c", "t",
                                         "C", "l", "a", "s", "s">>), Str(<<"A">>))},
                   MaxChildren),
          EqualityFilter(Str(<<"u", "i", "d">>), Str(<<"2">>)))

\* the filters written and read back
BinaryInputs == [fn : {"write"}, filter : BinaryFilters]

\* ------------------------------------------------------ textual filters

\* str[i], counting from 0; -1 where JavaScript gives undefined
At(str, i) == IF i >= 0 /\ i < Len(str) THEN str[i + 1] ELSE -1

\* str.indexOf(ch, from)
IndexOf(str, ch, from) ==
  IF \E i \in from..(Len(str) - 1) : str[i + 1] = ch
    THEN CHOOSE i \in from..(Len(str) - 1) :
           /\ str[i + 1] = ch
           /\ \A j \in from..(i - 1) : str[j + 1] # ch
    ELSE -1

\* str.substr(start): the rest of the string from start
Rest(str, start) == SubSeq(str, start + 1, Len(str))

\* the value of a hexadecimal digit, -1 for any other character
HexVal(c) ==
  IF c >= 48 /\ c <= 57 THEN c - 48
  ELSE IF c >= 97 /\ c <= 102 THEN c - 87
  ELSE IF c >= 65 /\ c <= 70 THEN c - 55
  ELSE -1

\* a value that could not be read: the parser throws
Thrown == [err |-> TRUE, value |-> << >>]

RECURSIVE UnescapeFrom(_, _)
\* the loop of _unescapeHexValues from index on
UnescapeFrom(input, index) ==
  IF index >= Len(input) THEN [err |-> FALSE, value |-> << >>]
  ELSE IF input[index + 1] = Ord["("] THEN Thrown
  ELSE IF input[index + 1] = Ord["\\"]
    THEN IF HexVal(At(input, index + 1)) >= 0 /\ HexVal(At(input, index + 2)) >= 0
           THEN LET rest == UnescapeFrom(input, index + 3)
                IN [err |-> rest.err,
                    value |-> <<16 * HexVal(At(input, index + 1))
                                  + HexVal(At(input, index + 2))>> \o rest.value]
           ELSE Thrown
  ELSE LET rest == UnescapeFrom(input, index + 1)
       IN [err |-> rest.err, value |-> <<input[index + 1]>> \o rest.value]

UnescapeHexValuesKeepsEscapes(input) ==
  [err |-> \E i \in 1..Len(input) : input[i] = Ord["("], value |-> input]

\* FilterParser._unescapeHexValues
UnescapeHexValues(input) == UnescapeFrom(input, 0)

RECURSIVE Split(_, _)
\* input.split(ch)
Split(input, ch) ==
  IF IndexOf(input, ch, 0) = -1
    THEN <<input>>
    ELSE <<SubSeq(input, 1, IndexOf(input, ch, 0))>>
           \o Split(Rest(input, IndexOf(input, ch, 0) + 1), ch)

\* FilterParser._unescapeSubstring
UnescapeSubstring(input) ==
  LET fields == Split(input, Ord["*"])
      initial == UnescapeHexValues(fields[1])
      final == UnescapeHexValues(fields[Len(fields)])
      any == [i \in 1..(Len(fields) - 2) |-> UnescapeHexValues(fields[i + 1])]
  IN IF Len(fields) < 2
       THEN [err |-> TRUE, initial |-> << >>, any |-> << >>, final |-> << >>]
       ELSE [err |-> initial.err \/ final.err \/ \E i \in DOMAIN any : any[i].err,
             initial |-> initial.value,
             any |-> [i \in DOMAIN any |-> any[i].value],
             final |-> final.value]

\* a character of [-\w]
IsWord(c) ==
  \/ c >= 48 /\ c <= 57
  \/ c >= 65 /\ c <= 90
  \/ c >= 97 /\ c <= 122
  \/ c = Ord["_"]
  \/ c = Ord["-"]

\* the length of the match of /^[-\w]+/, 0 when there is none
WordLen(str) ==
  IF \A i \in 1..Len(str) : IsWord(str[i])
    THEN Len(str)
    ELSE (CHOOSE i \in 1..Len(str) :
            ~IsWord(str[i]) /\ \A j \in 1..(i - 1) : IsWord(str[j])) - 1

\* the filter of a parse that threw
NoFilter == [type |-> "none"]

\* new GreaterThanEqualsFilter, new LessThanEqualsFilter, new
\* ApproximateFilter({ attribute, value })
ValueFilter(type, attribute, unescaped) ==
  [err |-> unescaped.err,
   filter |-> IF unescaped.err THEN NoFilter
              ELSE [type |-> type, attribute |-> attribute, value |-> unescaped.value]]

\* FilterParser._parseExpressionFilterFromString, for an expression that
\* does not start with ':'
ParseExpressionFilterFromString(filterString) ==
  LET n == WordLen(filterString)
      attribute == SubSeq(filterString, 1, n)
      remainingExpression == Rest(filterString, n)
      afterEquals == Rest(remainingExpression, 1)
      substring == UnescapeSubstring(afterEquals)
  IN IF n = 0 THEN [err |-> TRUE, filter |-> NoFilter]
     ELSE IF remainingExpression = Str(<<"=", "*">>)
       THEN [err |-> FALSE, filter |-> [type |-> "present", attribute |-> attribute]]
     ELSE IF At(remainingExpression, 0) = Ord["="]
       THEN IF IndexOf(afterEquals, Ord["*"], 0) # -1
              THEN [err |-> substring.err,
                    filter |-> IF substring.err THEN NoFilter
                               ELSE [type |-> "substrings", attribute |-> attribute,
                                     initial |-> substring.initial,
                                     any |-> substring.any,
                                     final |-> substring.final]]
              ELSE ValueFilter("equalityMatch", attribute, UnescapeHexValues(afterEquals))
     ELSE IF At(remainingExpression, 0) = Ord[">"] /\ At(remainingExpression, 1) = Ord["="]
       THEN ValueFilter("greaterOrEqual", attribute,
                        UnescapeHexValues(Rest(remainingExpression, 2)))
     ELSE IF At(remainingExpression, 0) = Ord["<"] /\ At(remainingExpression, 1) = Ord["="]
       THEN ValueFilter("lessOrEqual", attribute,
                        UnescapeHexValues(Rest(remainingExpression, 2)))
     ELSE IF At(remainingExpression, 0) = Ord["~"] /\ At(remainingExpression, 1) = Ord["="]
       THEN ValueFilter("approxMatch", attribute,
                        UnescapeHexValues(Rest(remainingExpression, 2)))
     ELSE [err |-> TRUE, filter |-> NoFilter]

\* _parseString threw
ParseThrown == [err |-> TRUE, end |-> 0, filter |-> NoFilter]

RECURSIVE ParseStringAt(_, _)
RECURSIVE ParseChildren(_, _)

\* the do-while loop of the '&' and '|' cases: the children parsed from
\* cursor on and the cursor after the last
ParseChildren(filterString, cursor) ==
  LET childResult == ParseStringAt(filterString, cursor)
      next == childResult.end + 1
      more == ParseChildren(filterString, next)
  IN IF childResult.err THEN [err |-> TRUE, children |-> << >>, cursor |-> cursor]
     ELSE IF next < Len(filterString) /\ At(filterString, next) # Ord[")"]
       THEN [err |-> more.err,
             children |-> <<childResult.filter>> \o more.children,
             cursor |-> more.cursor]
     ELSE [err |-> FALSE, children |-> <<childResult.filter>>, cursor |-> next]

\* FilterParser._parseString(filterString, start, fullString): the filter
\* and the index where it ends
ParseStringAt(filterString, start) ==
  LET cursor == start + 1
      set == ParseChildren(filterString, cursor + 1)
      childResult == ParseStringAt(filterString, cursor + 1)
      end == IndexOf(filterString, Ord[")"], cursor)
      expression == ParseExpressionFilterFromString(
                      SubSeq(filterString, cursor + 1, end))
  IN IF At(filterString, start) # Ord["("] THEN ParseThrown
     ELSE IF At(filterString, cursor) = Ord["&"]
       THEN IF set.err THEN ParseThrown
            ELSE [err |-> FALSE, end |-> set.cursor, filter |-> AndFilter(set.children)]
     ELSE IF At(filterString, cursor) = Ord["|"]
       THEN IF set.err THEN ParseThrown
            ELSE [err |-> FALSE, end |-> set.cursor, filter |-> OrFilter(set.children)]
     ELSE IF At(filterString, cursor) = Ord["!"]
       THEN IF childResult.err THEN ParseThrown
            ELSE [err |-> FALSE, end |-> childResult.end + 1,
                  filter |-> NotFilter(childResult.filter)]
     ELSE IF end = -1 \/ expression.err THEN ParseThrown
     ELSE [err |-> FALSE, end |-> end, filter |-> expression.filter]

\* FilterParser.parseString
ParseString(filterString) ==
  LET wrapped == IF At(filterString, 0) # Ord["("]
                   THEN Str(<<"(">>) \o filterString \o Str(<<")">>)
                   ELSE filterString
      parseResult == ParseStringAt(wrapped, 0)
  IN IF Len(filterString) = 0 THEN [err |-> TRUE, filter |-> NoFilter]
     ELSE IF parseResult.err \/ parseResult.end < Len(wrapped) - 1
       THEN [err |-> TRUE, filter |-> NoFilter]
     ELSE [err |-> FALSE, filter |-> parseResult.filter]

\* Filter.escape of a string: '*', '(', ')', '\' and NUL as a backslash
\* and two hexadecimal digits, every other character as it is
Escape(input) ==
  Flatten([i \in 1..Len(input) |->
             CASE input[i] = Ord["*"] -> Str(<<"\\", "2", "a">>)
               [] input[i] = Ord["("] -> Str(<<"\\", "2", "8">>)
               [] input[i] = Ord[")"] -> Str(<<"\\", "2", "9">>)
               [] input[i] = Ord["\\"] -> Str(<<"\\", "5", "c">>)
               [] input[i] = 0 -> Str(<<"\\", "0", "0">>)
               [] OTHER -> <<input[i]>>])

\* EqualityFilter.toString
EqualityFilterToString(filter) ==
  Str(<<"(">>) \o Escape(filter.attribute) \o Str(<<"=">>)
    \o Escape(filter.value) \o Str(<<")">>)

\* toString of the other filters that hold an attribute and a value
ValueFilterToString(filter) ==
  Str(<<"(">>) \o Escape(filter.attribute)
    \o ( CASE filter.type = "greaterOrEqual" -> Str(<<">", "=">>)
            [] filter.type = "lessOrEqual" -> Str(<<"<", "=">>)
            [] OTHER -> Str(<<"~", "=">>) )
    \o Escape(filter.value) \o Str(<<")">>)

\* PresenceFilter.toString
PresenceFilterToString(filter) ==
  Str(<<"(">>) \o Escape(filter.attribute) \o Str(<<"=", "*", ")">>)

\* SubstringFilter.toString
SubstringFilterToString(filter) ==
  Str(<<"(">>) \o Escape(filter.attribute) \o Str(<<"=">>)
    \o Escape(filter.initial) \o Str(<<"*">>)
    \o Flatten([i \in 1..Len(filter.any) |-> Escape(filter.any[i]) \o Str(<<"*">>)])
    \o Escape(filter.final) \o Str(<<")">>)

RECURSIVE ToStringOf(_)

\* AndFilter.toString
AndFilterToString(filter) ==
  Str(<<"(", "&">>)
    \o Flatten([i \in 1..Len(filter.filters) |-> ToStringOf(filter.filters[i])])
    \o Str(<<")">>)

\* OrFilter.toString
OrFilterToString(filter) ==
  Str(<<"(", "|">>)
    \o Flatten([i \in 1..Len(filter.filters) |-> ToStringOf(filter.filters[i])])
    \o Str(<<")">>)

\* NotFilter.toString
NotFilterToString(filter) ==
  Str(<<"(", "!">>) \o ToStringOf(filter.filter) \o Str(<<")">>)

\* filter.toString(), by the filter's class
ToStringOf(filter) ==
  CASE filter.type = "and" -> AndFilterToString(filter)
    [] filter.type = "or" -> OrFilterToString(filter)
    [] filter.type = "not" -> NotFilterToString(filter)
    [] filter.type = "equalityMatch" -> EqualityFilterToString(filter)
    [] filter.type = "present" -> PresenceFilterToString(filter)
    [] filter.type = "substrings" -> SubstringFilterToString(filter)
    [] OTHER -> ValueFilterToString(filter)

\* the characters the expressions parsed are written with: a letter, the
\* wildcard, the escape character and the digits of the escapes of '*',
\* ')' and of other characters
ValueChars == {Ord["a"], Ord["*"], Ord["\\"], Ord["2"], Ord["9"]}

\* the expressions parsed: cn, one of the four operators, and up to
\* MaxValueLen characters
Expressions ==
  {Str(<<"(", "c", "n">>) \o op \o v \o Str(<<")">>) :
     op \in {Str(<<"=">>), Str(<<">", "=">>), Str(<<"<", "=">>), Str(<<"~", "=">>)},
     v \in SeqsUpTo(ValueChars, MaxValueLen)}

\* filter texts of every shape the parser tells apart: nested, without the
\* outer parentheses, with escapes in either case and of ordinary
\* characters, unterminated, with text after the filter, empty, and with
\* an unescaped '('
Texts ==
  { Str(<<"(", "&", "(", "c", "n", "=", "J", "i", "m", "*", ")",
          "(", "!", "(", "u", "i", "d", "=", "2", ")", ")", ")">>),
    Str(<<"c", "n", "=", "a">>),
    Str(<<"(", "c", "n", "=", "\\", "6", "1", ")">>),
    Str(<<"(", "c", "n", "=", "\\", "2", "A", ")">>),
    Str(<<"(", "c", "n", "=", "\\", "5", "c", "\\", "2", "8", ")">>),
    Str(<<"(", "c", "n", "=", "\\", "0", "0", ")">>),
    Str(<<"(", "c", "n", "=", "\\", "z", "z", ")">>),
    Str(<<"(", "c", "n", "=", "a", "(", "b", ")">>),
    Str(<<"(", "C", "N", "=", "*", "a", "*", "b", "*", "J", ")">>),
    Str(<<"(", "u", "i", "d", "=", "*", ")">>),
    Str(<<"(", "o", "-", "u", "_", "1", "=", ")">>),
    Str(<<"(", "|", "(", "c", "n", "=", "a", ")", "(", "c", "n", "=", "b", ")", ")">>),
    Str(<<"(", "|", "(", "&", "(", "c", "n", "=", "a", ")", ")",
          "(", "!", "(", "c", "n", "=", "*", ")", ")", ")">>),
    Str(<<"(", "&", "(", "c", "n", "=", "a", ")">>),
    Str(<<"(", "!", "(", "c", "n", "=", "a", ")", "b">>),
    Str(<<"(", "!", "(", "c", "n", "=", "a", ")", "(", "c", "n", "=", "b", ")", ")">>),
    Str(<<"(", "&", "(", "c", "n", "=", "a", ")", "b", ")">>),
    Str(<<"(", "c", "n", "=", "a", ")", "b">>),
    Str(<<"(", "(", "c", "n", "=", "a", ")", ")">>),
    Str(<<"(", "&", ")">>),
    Str(<<"(", ")">>),
    Str(<<"(", "=", "a", ")">>),
    Str(<<"(", "c", "n", ")">>),
    Str(<<"(", "!", "(", "c", "n", "=", "a", ")">>),
    Str(<<"(", "|", "(", "c", "n", "=", "a", ")", "(", "c", "n", "=", "b", ")">>),
    Str(<<"c", "n", "=", "a", ")">>),
    Str(<<"(", "c", "n", "=", "a", ")", "(", "c", "n", "=", "b", ")">>),
    << >> }

\* the calls of FilterParser.parseString
TextInputs == [fn : {"parseString"}, filterString : Expressions \cup Texts]

\* ------------------------------------------- relative distinguished names
\* RDN.attrs is the sequence of its name and value pairs in the order the
\* names were first set.

\* Object.keys(rdn.attrs)
Keys(attrs) == [i \in 1..Len(attrs) |-> attrs[i].name]

\* rdn.attrs[name], for a name that is set
Get(attrs, name) ==
  (CHOOSE i \in 1..Len(attrs) : attrs[i].name = name)

\* a sorts before b: the order of Array.prototype.sort on strings, by
\* their code units
Before(a, b) ==
  \E i \in 1..Len(b) :
    /\ i <= Len(a) + 1
    /\ \A j \in 1..(i - 1) : a[j] = b[j]
    /\ i = Len(a) + 1 \/ a[i] < b[i]

\* keys.sort(), the keys being distinct
Sort(keys) ==
  [i \in 1..Len(keys) |->
     CHOOSE k \in {keys[j] : j \in 1..Len(keys)} :
       Cardinality({m \in {keys[j] : j \in 1..Len(keys)} : Before(m, k)}) = i - 1]

\* the name is set in the RDN
Has(attrs, name) == \E i \in 1..Len(attrs) : attrs[i].name = name

\* RDN.equals
RDNEquals(this, other) ==
  /\ Len(Keys(this)) = Len(Keys(other))
  /\ \A i \in 1..Len(Keys(this)) :
        /\ Sort(Keys(this))[i] = Sort(Keys(other))[i]
        /\ Has(other, Sort(Keys(this))[i])
        /\ this[Get(this, Sort(Keys(this))[i])].value
             = other[Get(other, Sort(Keys(this))[i])].value

\* the attribute names and the values the RDNs compared are made of
RdnNames == {Str(<<"c", "n">>), Str(<<"C", "N">>), Str(<<"o", "u">>)}
RdnValues == {Str(<<"a">>), Str(<<"A">>)}

\* the RDNs compared: up to MaxAttrs pairs with different names
RDNs ==
  {q \in SeqsUpTo([name : RdnNames, value : RdnValues], MaxAttrs) :
     \A i, j \in 1..Len(q) : q[i].name = q[j].name => i = j}

\* the calls of RDN.equals
RdnInputs == [fn : {"equals"}, this : RDNs, other : RDNs]

\* RDN._escape: quoted, the value starts or ends with a space
Quoted(value) ==
  Len(value) > 0 /\ (value[1] = Ord[" "] \/ value[Len(value)] = Ord[" "])

\* RDN._escape: the while loop from position current, str being the text
\* built so far; escaped is /[\\"]/ and special is /[,=+<>#;]/
RECURSIVE EscapeLoop(_, _, _)
EscapeLoop(value, current, str) ==
  IF current > Len(value) THEN str
  ELSE EscapeLoop(value, current + 1,
         IF \/ value[current] \in {Ord["\\"], Ord["\""]}
            \/ /\ ~Quoted(value)
               /\ value[current] \in {Ord[","], Ord["="], Ord["+"], Ord["<"],
                                       Ord[">"], Ord["#"], Ord[";"]}
         THEN str \o <<Ord["\\"], value[current]>>
         ELSE str \o <<value[current]>>)

\* RDN._escape without the quotes around a value with a leading or
\* trailing space
RDNEscapeNoQuotes(value) == EscapeLoop(value, 1, << >>)

\* RDN._escape
RDNEscape(value) ==
  IF Quoted(value)
  THEN <<Ord["\""]>> \o EscapeLoop(value, 1, << >>) \o <<Ord["\""]>>
  ELSE EscapeLoop(value, 1, << >>)

\* RDN.toString: keys.forEach from the i-th key, str being the text built
\* so far
RECURSIVE ToStringLoop(_, _, _)
ToStringLoop(attrs, i, str) ==
  IF i > Len(attrs) THEN str
  ELSE ToStringLoop(attrs, i + 1,
         (IF Len(str) > 0 THEN str \o <<Ord["+"]>> ELSE str)
           \o Keys(attrs)[i] \o <<Ord["="]>>
           \o RDNEscape(attrs[Get(attrs, Keys(attrs)[i])].value))

\* RDN.toString
RDNToString(attrs) == ToStringLoop(attrs, 1, << >>)

\* the RDNs written: one pair with every value of up to MaxValueLen
\* characters, and compound RDNs of up to MaxAttrs pairs
WrittenRDNs ==
  {<<[name |-> Str(<<"c", "n">>), value |-> v]>> :
     v \in SeqsUpTo({Ord["a"], Ord[" "], Ord[","], Ord["\\"], Ord["\""],
                     Ord["+"], Ord["="]}, MaxValueLen)}
  \cup
  {q \in SeqsUpTo([name : RdnNames,
                   value : {Str(<<"a">>), Str(<<" ", ",">>), Str(<<"a", "+">>)}],
                  MaxAttrs) :
     \A i, j \in 1..Len(q) : q[i].name = q[j].name => i = j}

\* ------------------------------------------------------- modifyDN request
\* the regular expression /[^\\],/ matches str at index i (from 0): a
\* character that is not a backslash, followed by a comma
MatchesAt(str, i) ==
  /\ i + 2 <= Len(str)
  /\ str[i + 1] # Ord["\\"]
  /\ str[i + 2] = Ord[","]

\* /[^\\],/.test(newDN)
Test(str) == \E i \in 0..(Len(str) - 2) : MatchesAt(str, i)

\* newDN.search(/[^\\],/), for a string the expression matches
Search(str) ==
  CHOOSE i \in 0..(Len(str) - 2) :
    MatchesAt(str, i) /\ \A j \in 0..(i - 1) : ~MatchesAt(str, j)

\* String.prototype.slice(from, to), 0 <= from and to <= str.length
Slice(str, from, to) == SubSeq(str, from + 1, to)

\* modifyDN: the fields of the ModifyDNRequest made for the string newDN
ModifyDNRequest(newDN) ==
  [deleteOldRdn |-> TRUE,
   newRdn |-> IF Test(newDN) THEN Slice(newDN, 0, Search(newDN) + 1) ELSE newDN,
   newSuperior |-> IF Test(newDN)
                   THEN [defined |-> TRUE,
                         text |-> Slice(newDN, Search(newDN) + 2, Len(newDN))]
                   ELSE [defined |-> FALSE, text |-> << >>]]

\* ------------------------------------------- search: the paging control
\* an optional number: undefined, or the number n
Undefined == [defined |-> FALSE, n |-> 0]
Number(n) == [defined |-> TRUE, n |-> n]

\* a JavaScript value is truthy: a number other than 0 (undefined is not)
Truthy(x) == x.defined /\ x.n # 0

\* options.paged: undefined, false, true, or a SearchPageOptions object
\* with its optional pageSize
PagedOptions ==
  [type : {"undefined"}, value : {FALSE}, pageSize : {Undefined}]
    \cup [type : {"boolean"}, value : BOOLEAN, pageSize : {Undefined}]
    \cup [type : {"object"}, value : {TRUE},
          pageSize : {Undefined} \cup {Number(n) : n \in 0..MaxLimit}]

\* !!options.paged
ShouldPage(options) ==
  options.paged.type = "object"
    \/ (options.paged.type = "boolean" /\ options.paged.value)

\* search: pageSize, with a pageSize of 0 taken as it is given
SearchPageSizeTakesZero(options) ==
  IF options.paged.type = "object" /\ options.paged.pageSize.defined
    THEN options.paged.pageSize.n
  ELSE IF Truthy(options.sizeLimit) /\ options.sizeLimit.n > 1
    THEN options.sizeLimit.n - 1
  ELSE DefaultPageSize

\* search: pageSize
SearchPageSize(options) ==
  IF options.paged.type = "object" /\ Truthy(options.paged.pageSize)
    THEN options.paged.pageSize.n
  ELSE IF Truthy(options.sizeLimit) /\ options.sizeLimit.n > 1
    THEN options.sizeLimit.n - 1
  ELSE DefaultPageSize

\* search: the controls of the SearchRequest, called without controls of
\* its own.  The PagedResultsControl is made with a size and no cookie,
\* which is an empty cookie in the request.
SearchControls(options) ==
  IF ShouldPage(options)
    THEN <<[type |-> "PagedResultsControl",
            value |-> [size |-> SearchPageSize(options), cookie |-> << >>]]>>
    ELSE << >>

\* ------------------------------------------------- the functions applied

\* the client variables, which the functions below neither read nor write
Aside == <<messageId, connected, socket, sockets, table, ops, timeoutOpt>>

\* the arguments of the call about to be made
Given(fn) == last.ev = "given" /\ last.arg.fn = fn

\* filter.matches(objectToCheck, strictAttributeCase) returns
FilterMatches ==
  /\ Given("matches")
  /\ last' = LogRets("matches", last.arg, NoCalls,
                     Matches(last.arg.filter, last.arg.objectToCheck,
                             last.arg.strictAttributeCase))
  /\ UNCHANGED Aside

\* filter.write(writer) has filled the writer's buffer
FilterWrite ==
  /\ Given("write")
  /\ last' = LogRets("write", last.arg, NoCalls, Write(last.arg.filter))
  /\ UNCHANGED Aside

\* FilterParser.parse(reader) returns, the reader on the buffer written
FilterParse ==
  /\ last.ev = "write"
  /\ last' = LogRets("parse", last.arg, NoCalls, Parse(last.rets, 0).filter)
  /\ UNCHANGED Aside

\* FilterParser.parseString(filterString) returns or throws
FilterParseString ==
  /\ Given("parseString")
  /\ last' = LogRets("parseString", last.arg, NoCalls,
                     ParseString(last.arg.filterString))
  /\ UNCHANGED Aside

\* toString() of the filter parseString returned
FilterToString ==
  /\ last.ev = "parseString"
  /\ ~last.rets.err
  /\ last' = LogRets("toString", last.arg, NoCalls,
                     [filter |-> last.rets.filter,
                      text |-> ToStringOf(last.rets.filter)])
  /\ UNCHANGED Aside

\* toString() of the filter a parse returned, nothing when it threw
TextOf(parseResult) ==
  IF parseResult.err THEN << >> ELSE ToStringOf(parseResult.filter)

\* FilterParser.parseString of that text, and toString() of its result
FilterParseAgain ==
  /\ last.ev = "toString"
  /\ last' = LogRets("parseAgain", last.arg, NoCalls,
                     [filter |-> last.rets.filter,
                      text |-> last.rets.text,
                      again |-> ParseString(last.rets.text),
                      textAgain |-> TextOf(ParseString(last.rets.text))])
  /\ UNCHANGED Aside

\* this.equals(other) returns
RdnEquals ==
  /\ Given("equals")
  /\ last' = LogRets("equals", last.arg, NoCalls,
                     RDNEquals(last.arg.this, last.arg.other))
  /\ UNCHANGED Aside

\* rdn.toString() returns
RdnToString ==
  /\ Given("RDN.toString")
  /\ last' = LogRets("RDN.toString", last.arg, NoCalls,
                     RDNToString(last.arg.rdn))
  /\ UNCHANGED Aside

\* modifyDN has made its request from newDN
ModifyDNBuilds ==
  /\ Given("modifyDN")
  /\ last' = LogRets("modifyDN", last.arg, NoCalls,
                     ModifyDNRequest(last.arg.newDN))
  /\ UNCHANGED Aside

\* search has made the controls of its first request
SearchBuilds ==
  /\ Given("search")
  /\ last' = LogRets("search", last.arg, NoCalls,
                     SearchControls(last.arg.options))
  /\ UNCHANGED Aside

\* the calls made of the filter and RDN functions and of the request
\* builders: RDN.toString of the RDNs written, modifyDN with every newDN
\* of up to MaxValueLen characters of a letter, the comma and the
\* backslash, search with its paged and sizeLimit options
Inputs ==
  MatchInputs \cup BinaryInputs \cup TextInputs \cup RdnInputs
    \cup [fn : {"RDN.toString"}, rdn : WrittenRDNs]
    \cup [fn : {"modifyDN"},
          newDN : SeqsUpTo({Ord["a"], Ord[","], Ord["\\"]}, MaxValueLen)]
    \cup [fn : {"search"},
          options : [paged : PagedOptions,
                     sizeLimit : {Undefined} \cup {Number(n) : n \in 0..MaxLimit}]]

\* a call of one of the functions is about to be made, beside a client
\* that was created and not used
InitGiven ==
  /\ messageId = 1
  /\ connected = FALSE
  /\ socket = 0
  /\ sockets = << >>
  /\ table = << >>
  /\ ops = [o \in Ops |-> IdleOp]
  /\ timeoutOpt = FALSE
  /\ \E x \in Inputs : last = LogRets("given", x, NoCalls, << >>)

NextPure ==
  \/ FilterMatches
  \/ FilterWrite
  \/ FilterParse
  \/ FilterParseString
  \/ FilterToString
  \/ FilterParseAgain
  \/ RdnEquals
  \/ RdnToString
  \/ ModifyDNBuilds
  \/ SearchBuilds

SpecPure == InitGiven /\ [][NextPure]_vars

\* ======================================================================
\* Properties
\* ======================================================================

\* the ids of the sockets whose socketClose handler ran in the last step
ClosedIds ==
  {last.pre.sockets[t].id :
     t \in {u \in Linked(last.pre.sockets, last.arg) : last.pre.sockets[u].wired}}

\* the socket id a table entry of the state before the last step carries
OwnerId(e) == last.pre.sockets[e.sock].id

\* the promise of call o went from pending to how in the last step, or was
\* settled before it and kept its outcome
SettledAs(o, how) ==
  IF last.pre.ops[o].out = "pending" THEN ops[o].out = how
  ELSE ops[o].out = last.pre.ops[o].out

\* socket s can carry no more traffic: torn down by the runtime when it
\* raised the error, destroyed by the client, or closed
Gone(s) == sockets[s].st \in {"errored", "destroyed", "closed"}

\* C1: once the close handler of a socket has run, the table holds no entry
\* whose socket carries the id of that socket -- whatever the sends,
\* responses, timeouts, errors and startTLS splice before it.
C1_NoEntryOutlivesClose ==
  last.ev = "close" =>
    \A k \in DOMAIN table : sockets[table[k].sock].id \notin ClosedIds

\* C1 witness: the close handler of a socket that startTLS had wrapped ran
\* while a request sent on the TLS socket was in the table.
C1_Witness ==
  /\ last.ev = "close"
  /\ \E k \in DOMAIN last.pre.table :
       /\ last.pre.sockets[last.pre.table[k].sock].tlsOp # 0
       /\ OwnerId(last.pre.table[k]) \in ClosedIds

\* C2: when a socket closes, every table entry carrying its id is removed
\* and its request settled -- an UnbindRequest by resolve(), any other by
\* reject() with an error naming the message type -- and every entry
\* carrying another socket's id stays, request and promise untouched.
C2_CloseSettlesOwned ==
  last.ev = "close" =>
    \A k \in DOMAIN last.pre.table :
      LET e == last.pre.table[k]
          o == e.op
          kind == last.pre.ops[o].kind
      IN IF OwnerId(e) \in ClosedIds
           THEN /\ k \notin DOMAIN table
                /\ o \in DOMAIN last.calls
                /\ IF kind = "unbind"
                     THEN /\ last.calls[o] = [how |-> "resolved", val |-> Void]
                          /\ SettledAs(o, "resolved")
                     ELSE /\ last.calls[o] =
                               [how |-> "rejected",
                                val |-> [err |-> "closed", type |-> MsgType(kind)]]
                          /\ SettledAs(o, "rejected")
           ELSE /\ k \in DOMAIN table
                /\ table[k] = e
                /\ ops[o] = last.pre.ops[o]
                /\ o \notin DOMAIN last.calls

\* C2 witness: a socket closed holding the entry of an AddRequest, which was
\* removed and handed the rejection naming AddRequest, while a request sent
\* on a newer socket, opened after a reconnect, stayed pending in the table.
C2_Witness ==
  /\ last.ev = "close"
  /\ \E o \in DOMAIN last.calls :
       /\ last.calls[o].how = "rejected"
       /\ last.calls[o].val.type = "AddRequest"
       /\ last.pre.ops[o].id \notin DOMAIN table
  /\ \E k \in DOMAIN table :
       /\ ops[table[k].op].out = "pending"
       /\ sockets[table[k].sock].id \notin ClosedIds

C4_DispatchByMessageId ==
  last.ev = "response" =>
    LET m == last.arg
        e == last.pre.table[m.id]
        o == e.op
    IN /\ \A k \in DOMAIN last.pre.table \ {m.id} :
            k \in DOMAIN table /\ table[k] = last.pre.table[k]
       /\ \A p \in Ops \ {o} : ops[p] = last.pre.ops[p]
       /\ DOMAIN last.calls \subseteq {o}
       /\ CASE m.type = "SearchEntry" ->
                 /\ m.id \in DOMAIN table
                 /\ table[m.id] = [e EXCEPT !.searchEntries = Append(@, m.payload)]
                 /\ last.calls = NoCalls
                 /\ ops[o] = last.pre.ops[o]
            [] m.type = "SearchReference" ->
                 /\ m.id \in DOMAIN table
                 /\ table[m.id] = [e EXCEPT !.searchReferences = Append(@, m.payload)]
                 /\ last.calls = NoCalls
                 /\ ops[o] = last.pre.ops[o]
            [] m.type = "SearchResponse" ->
                 /\ m.id \notin DOMAIN table
                 /\ last.calls[o] =
                      [how |-> "resolved",
                       val |-> [type |-> "SearchResponse", status |-> m.status,
                                searchEntries |-> e.searchEntries,
                                searchReferences |-> e.searchReferences]]
                 /\ SettledAs(o, "resolved")
            [] OTHER ->
                 /\ m.id \notin DOMAIN table
                 /\ last.calls[o] =
                      [how |-> "resolved",
                       val |-> [type |-> m.type, status |-> m.status]]
                 /\ SettledAs(o, "resolved")

\* C4 witness: a SearchResponse resolved a pending request with the entry
\* buffered for it, while another request stayed pending in the table.
C4_Witness ==
  /\ last.ev = "response"
  /\ last.arg.type = "SearchResponse"
  /\ \E o \in DOMAIN last.calls :
       /\ last.pre.ops[o].out = "pending"
       /\ ops[o].out = "resolved"
       /\ Len(last.calls[o].val.searchEntries) > 0
  /\ \E k \in DOMAIN table : ops[table[k].op].out = "pending"

\* C5: a response whose messageId has no table entry is dropped: the table,
\* every call and its promise, the sockets, this.socket and the connected
\* flag are as before, and no resolve or reject call is made.
C5_UnknownIdDropped ==
  last.ev = "drop" =>
    /\ last.arg.id \notin DOMAIN last.pre.table
    /\ table = last.pre.table
    /\ ops = last.pre.ops
    /\ sockets = last.pre.sockets
    /\ socket = last.pre.socket
    /\ connected = last.pre.connected
    /\ messageId = last.pre.messageId
    /\ last.calls = NoCalls

\* C5 witness: a response with an unknown id was dropped while a request
\* was pending on the connected client.
C5_Witness ==
  /\ last.ev = "drop"
  /\ connected
  /\ \E k \in DOMAIN table : k # last.arg.id /\ ops[table[k].op].out = "pending"

C7_MessageIdSequence ==
  LET before == last.pre.messageId
      allocated == messageId # before
  IN /\ messageId \in 1..MAX_MESSAGE_ID
     /\ allocated =>
          messageId = IF before + 1 = MAX_MESSAGE_ID THEN 1 ELSE before + 1
     /\ allocated /\ (\A o \in Ops : last.pre.ops[o].id = 0) => messageId = 2
     /\ \A o \in Ops :
          /\ ops[o].id # 0 => ops[o].id \in 1..MAX_MESSAGE_ID
          /\ ops[o].id # last.pre.ops[o].id =>
               last.pre.ops[o].id = 0 /\ allocated /\ ops[o].id = messageId

\* C7 witness: the counter stood at MAX_MESSAGE_ID - 1 and a call was given
\* the id 1.
C7_Witness ==
  /\ last.pre.messageId = MAX_MESSAGE_ID - 1
  /\ messageId = 1
  /\ \E o \in Ops : ops[o].id = 1 /\ last.pre.ops[o].id = 0

\* C8 as stated: the requests pending at one time have pairwise distinct
\* ids, and each of them has its own entry in the table -- none lost to a
\* later request -- also across the wrap of the id counter.
C8_PendingIdsDistinct ==
  /\ \A o, p \in Ops :
       o # p /\ ops[o].out = "pending" /\ ops[p].out = "pending"
         => ops[o].id # ops[p].id
  /\ \A o \in Ops :
       ops[o].out = "pending" =>
         ops[o].id \in DOMAIN table /\ table[ops[o].id].op = o

\* C9: when the write callback of an AbandonRequest runs, its entry is
\* removed and resolve() is called at once -- the promise, if still
\* pending, is resolved -- no response being awaited; the sockets,
\* this.socket and the connected flag stay as they were.
C9_AbandonWritten ==
  last.ev = "written" /\ ops[last.arg].kind = "abandon" =>
    LET o == last.arg IN
    /\ ops[o].id \notin DOMAIN table
    /\ \A k \in DOMAIN last.pre.table \ {ops[o].id} :
         k \in DOMAIN table /\ table[k] = last.pre.table[k]
    /\ last.calls = Resolve(o, Void)
    /\ SettledAs(o, "resolved")
    /\ sockets = last.pre.sockets
    /\ socket = last.pre.socket
    /\ connected = last.pre.connected

\* C9 witness: the write callback of a pending AbandonRequest ran on a
\* connected client: the request is resolved, its entry gone, the socket
\* open and the client connected.
C9_Witness ==
  /\ last.ev = "written"
  /\ ops[last.arg].kind = "abandon"
  /\ last.pre.ops[last.arg].out = "pending"
  /\ last.pre.ops[last.arg].id \in DOMAIN last.pre.table
  /\ ops[last.arg].out = "resolved"
  /\ connected
  /\ sockets[socket].st = "open"

C11_StatusDecidesOutcome ==
  \A o \in DOMAIN last.rets :
    last.pre.ops[o].kind = "add" =>
      /\ last.ev = "response" =>
            last.rets[o] = IF last.arg.status = Success
                             THEN [how |-> "resolved", val |-> Void]
                             ELSE [how |-> "rejected",
                                   val |-> StatusError(last.arg.status)]
      /\ last.rets[o].how = "resolved" =>
            last.ev = "response" /\ last.arg.status = Success

\* an add was answered with a status other than Success and rejected with
\* the error of that status
C11_Witness ==
  \E o \in DOMAIN last.rets :
    /\ last.ev = "response"
    /\ last.pre.ops[o].kind = "add"
    /\ last.arg.status # Success
    /\ last.rets[o] = [how |-> "rejected", val |-> StatusError(last.arg.status)]

\* the entry id of the table before the last step belongs to a request sent
\* on the plain socket that the client's current socket, a TLS socket whose
\* handshake completed, wraps
SentBeforeSplice(id) ==
  LET cur == last.pre.socket IN
  /\ cur # 0
  /\ last.pre.sockets[cur].err = "tls"
  /\ last.pre.sockets[cur].under = last.pre.table[id].sock

\* C18: when startTLS completes, the TLS socket becomes the client's socket
\* and carries the id of the socket it wraps; a request sent before the
\* splice and still pending is resolved by its response, which can only
\* arrive through the TLS socket, and is swept by the close handler when the
\* connection closes (resolved if Unbind, rejected otherwise).
C18_SplicePreservesPending ==
  /\ (last.ev = "secureConnect" /\ sockets[last.arg].under # 0) =>
        /\ socket = last.arg
        /\ sockets[socket].id = sockets[sockets[socket].under].id
        /\ table = last.pre.table
  /\ \A id \in DOMAIN last.pre.table :
        SentBeforeSplice(id) =>
          LET o == last.pre.table[id].op IN
          /\ ( /\ last.ev = "response"
               /\ last.arg.id = id
               /\ last.arg.type \in {"SearchResponse", "Other"} ) =>
                /\ id \notin DOMAIN table
                /\ o \in DOMAIN last.calls
                /\ last.calls[o].how = "resolved"
                /\ SettledAs(o, "resolved")
          /\ ( /\ last.ev = "close"
               /\ last.arg = Root(last.pre.sockets, last.pre.table[id].sock) ) =>
                /\ id \notin DOMAIN table
                /\ o \in DOMAIN last.calls
                /\ last.calls[o].how =
                     IF last.pre.ops[o].kind = "unbind" THEN "resolved" ELSE "rejected"

\* an add sent on the plain socket was still pending when startTLS
\* completed, and its response then resolved it
C18_Witness ==
  /\ last.ev = "response"
  /\ last.arg.id \in DOMAIN last.pre.table
  /\ SentBeforeSplice(last.arg.id)
  /\ last.pre.sockets[last.pre.table[last.arg.id].sock].data = FALSE
  /\ last.pre.ops[last.pre.table[last.arg.id].op].kind = "add"
  /\ ops[last.pre.table[last.arg.id].op].out = "resolved"

\* the connection closed after a splice and the close handler rejected a
\* request sent before the splice
C18_CloseReached ==
  /\ last.ev = "close"
  /\ \E id \in DOMAIN last.pre.table :
        /\ SentBeforeSplice(id)
        /\ last.arg = Root(last.pre.sockets, last.pre.table[id].sock)
        /\ last.pre.table[id].op \in DOMAIN last.calls

\* the TLS socket of a startTLS upgrade raised an error before
\* 'secureConnect' in the last step
TlsUpgradeFailed ==
  last.ev = "tlsError" /\ last.pre.sockets[last.arg].under # 0

\* C19: when the TLS layer reports an error during the upgrade, before
\* secureConnect, startTLS rejects with that error and the original
\* plaintext socket is destroyed.
C19_TlsErrorDestroysOriginal ==
  TlsUpgradeFailed =>
    /\ LET o == last.pre.sockets[last.arg].tlsOp IN
        /\ o \in DOMAIN last.rets
        /\ last.rets[o] = [how |-> "rejected",
                           val |-> [err |-> "tls", type |-> MsgType("startTLS")]]
    /\ sockets[last.pre.sockets[last.arg].under].st = "destroyed"

\* the part of C19 the handler does carry out: startTLS rejects
C19_TlsErrorRejects ==
  TlsUpgradeFailed =>
    LET o == last.pre.sockets[last.arg].tlsOp IN
    o \in DOMAIN last.rets /\ last.rets[o].how = "rejected"

\* after the failed upgrade the client still counts itself connected to
\* the plain socket, which is open and no longer feeds the message parser
C19_LeftHalfSpliced ==
  /\ TlsUpgradeFailed
  /\ connected
  /\ socket = last.pre.sockets[last.arg].under
  /\ sockets[socket].st = "open"
  /\ ~sockets[socket].data

\* call o's search received its SearchResponse in the last step and the
\* method acted on it
SearchAnswered(o) ==
  /\ last.ev = "response"
  /\ last.arg.type = "SearchResponse"
  /\ o \in DOMAIN last.rets
  /\ last.pre.ops[o].kind = "search"

\* the entries and references the search of call o had received when the
\* SearchResponse of the last step arrived: those of its earlier pages and
\* those buffered for the page just completed
Received(o) ==
  [searchEntries |-> last.pre.ops[o].srch.entries
                       \o last.pre.table[last.arg.id].searchEntries,
   searchReferences |-> last.pre.ops[o].srch.references
                          \o last.pre.table[last.arg.id].searchReferences]

\* the SearchResponse of the last step sends the paged search of call o
\* on to another page: the page was not empty and its paged-results
\* control has a cookie
AsksForMore(o) ==
  /\ last.pre.ops[o].srch.paged
  /\ last.arg.payload \notin {"none", ""}
  /\ \/ Len(last.pre.table[last.arg.id].searchEntries) > 0
     \/ Len(last.pre.table[last.arg.id].searchReferences) > 0

\* the search of call o took the page of the last step into its result and
\* sent the SearchRequest of the next page, or, the client having lost its
\* connection, failed to send it
WentOn(o) ==
  \/ /\ last.rets[o] = [how |-> "continues", val |-> Received(o)]
     /\ ops[o].srch.sent = last.pre.ops[o].srch.sent + 1
     /\ ops[o].out = "pending"
  \/ /\ ~last.pre.connected \/ last.pre.socket = 0
     /\ last.rets[o].how = "rejected"
     /\ last.rets[o].val.err = "notEstablished"

C12_RejectReached ==
  \E o \in Ops :
    /\ SearchAnswered(o)
    /\ last.arg.status = SizeLimitExceeded
    /\ last.pre.ops[o].srch.sizeLimit = 0
    /\ last.rets[o].how = "rejected"

\* C13 as stated: a search called with a timeLimit whose SearchResponse has
\* status timeLimitExceeded resolves with what it had received.
C13_TimeLimitResolves ==
  \A o \in Ops :
    ( /\ SearchAnswered(o)
      /\ last.arg.status = TimeLimitExceeded
      /\ last.pre.ops[o].srch.timeLimit > 0 ) =>
        last.rets[o] = [how |-> "resolved", val |-> Received(o)]

\* C13: a search whose SearchResponse has status timeLimitExceeded rejects
\* with the error of that status, whether or not it was called with a
\* timeLimit; what it had received is not returned.
C13_TimeLimitRejects ==
  \A o \in Ops :
    (SearchAnswered(o) /\ last.arg.status = TimeLimitExceeded) =>
      last.rets[o] = [how |-> "rejected", val |-> StatusError(TimeLimitExceeded)]

\* a search with a timeLimit had received an entry when timeLimitExceeded
\* arrived, and rejected
C13_Witness ==
  \E o \in Ops :
    /\ SearchAnswered(o)
    /\ last.arg.status = TimeLimitExceeded
    /\ last.pre.ops[o].srch.timeLimit > 0
    /\ Len(Received(o).searchEntries) > 0
    /\ last.rets[o].how = "rejected"

\* the paged search of call o was answered with a Success page in the last
\* step, the client being connected
PageAnswered(o) ==
  /\ SearchAnswered(o)
  /\ last.arg.status = Success
  /\ last.pre.ops[o].srch.paged
  /\ last.pre.connected /\ last.pre.socket # 0

\* call o's search issued another SearchRequest in the last step
IssuedAnother(o) == ops[o].srch.sent = last.pre.ops[o].srch.sent + 1

\* C14: with paging, after a Success page the search issues another
\* SearchRequest exactly when the page's response carries a paged-results
\* control with a non-empty cookie; it stops on an empty cookie and when
\* the control is missing.
C14_PagingFollowsCookie ==
  \A o \in Ops :
    PageAnswered(o) =>
      (IssuedAnother(o) <=> last.arg.payload \notin {"none", ""})

\* the part of C14 that holds: no further request after a page without a
\* cookie, and a further request after a page that has a cookie and at
\* least one entry or reference
C14_StopsWithoutCookie ==
  \A o \in Ops :
    PageAnswered(o) =>
      /\ last.arg.payload \in {"none", ""} =>
            ~IssuedAnother(o) /\ last.rets[o].how = "resolved"
      /\ AsksForMore(o) => IssuedAnother(o)

\* a page without entries or references came with a cookie, and the search
\* resolved without asking for the next page
C14_EmptyPageStops ==
  \E o \in Ops :
    /\ PageAnswered(o)
    /\ last.arg.payload = "c1"
    /\ Received(o).searchEntries = << >> /\ Received(o).searchReferences = << >>
    /\ last.rets[o].how = "resolved"
    /\ ~IssuedAnother(o)

\* the table entries of call o
EntriesOf(o) == {id \in DOMAIN table : table[id].op = o}

\* C15: a paged search whose pages each carry an entry or a reference and a
\* cookie, until one comes with an empty cookie, issues its SearchRequests
\* one after the other: the first with an empty cookie; after each page
\* with a cookie exactly one more, with a larger messageId, that page's
\* cookie, the same options and page size, once the page's SearchResponse
\* has arrived; none after the page with the empty cookie, where it
\* resolves with the entries and references of all pages in order.
C15_PagedLoop ==
  \A o \in Ops :
    /\ ( /\ ops[o].kind = "search"
         /\ ops[o].srch.sent = 1
         /\ last.pre.ops[o].srch.sent = 0 ) => ops[o].srch.cookie = ""
    /\ ops[o].srch.sent > last.pre.ops[o].srch.sent =>
          /\ IssuedAnother(o)
          /\ ops[o].srch.sent > 1 => SearchAnswered(o) /\ AsksForMore(o)
    /\ (PageAnswered(o) /\ AsksForMore(o)) =>
          /\ IssuedAnother(o)
          /\ last.arg.id = last.pre.ops[o].id
          /\ ops[o].id > last.pre.ops[o].id
          /\ EntriesOf(o) = {ops[o].id}
          /\ ops[o].srch.cookie = last.arg.payload
          /\ ops[o].srch.size = last.pre.ops[o].srch.size
          /\ ops[o].srch.paged
          /\ ops[o].srch.sizeLimit = last.pre.ops[o].srch.sizeLimit
          /\ ops[o].srch.timeLimit = last.pre.ops[o].srch.timeLimit
          /\ ops[o].srch.entries = Received(o).searchEntries
          /\ ops[o].srch.references = Received(o).searchReferences
    /\ (PageAnswered(o) /\ last.arg.payload = "") =>
          /\ ~IssuedAnother(o)
          /\ EntriesOf(o) = {}
          /\ last.rets[o] = [how |-> "resolved", val |-> Received(o)]

\* a paged search resolved at its third page, the one with the empty
\* cookie, with the entries of all three pages
C15_Witness ==
  \E o \in Ops :
    /\ PageAnswered(o)
    /\ last.arg.payload = ""
    /\ last.pre.ops[o].srch.sent = 3
    /\ last.pre.ops[o].srch.cookie = "c1"
    /\ last.rets[o].how = "resolved"
    /\ Len(last.rets[o].val.searchEntries) + Len(last.rets[o].val.searchReferences) = 3

\* call o is a search() given arguments it refuses
Refused(o) == ops[o].kind = "search" /\ ops[o].srch.input # "ok"

\* call o, which was waiting for its connection, resumed in the last step
Resumed(o) ==
  /\ last.ev = "connect"
  /\ last.pre.sockets[last.arg].conn
  /\ last.pre.sockets[last.arg].waiter = o

\* C16: a search() given a PagedResultsControl among its controls rejects
\* with the error for that, at once on a connected client and otherwise as
\* soon as the connection is there, and issues no request: it is never
\* given a message id, never has a table entry, never writes or arms a
\* timer, and the id counter and the table are untouched when it rejects.
C16_PagedControlRefused ==
  \A o \in Ops :
    (Refused(o) /\ ops[o].srch.input = "pagedResultsControl") =>
      /\ ops[o].id = 0
      /\ ops[o].srch.sent = 0
      /\ EntriesOf(o) = {}
      /\ ops[o].timer = "off"
      /\ ops[o].out # "resolved"
      /\ o \in DOMAIN last.rets =>
            /\ last.rets[o].how = "rejected"
            /\ messageId = last.pre.messageId
            /\ table = last.pre.table
      /\ ((last.ev = "call" /\ last.arg = o /\ last.pre.connected) \/ Resumed(o)) =>
            /\ o \in DOMAIN last.rets
            /\ last.rets[o].val.err = "pagedResultsControl"

\* a connected client with the id counter at 2 was handed a search with a
\* PagedResultsControl and rejected it in the call
C16_Witness ==
  \E o \in Ops :
    /\ last.ev = "call" /\ last.arg = o
    /\ last.pre.connected
    /\ Refused(o) /\ ops[o].srch.input = "pagedResultsControl"
    /\ o \in DOMAIN last.rets
    /\ last.rets[o].val.err = "pagedResultsControl"
    /\ messageId = 2

\* C17: a search() given invalid input (a PagedResultsControl, a filter
\* string that does not parse) raises the error in the call itself, before
\* any wire activity: on a client that is not connected the failing call
\* opens no transport connection.
C17_InvalidInputBeforeWire ==
  \A o \in Ops :
    (Refused(o) /\ last.ev = "call" /\ last.arg = o) =>
      /\ o \in DOMAIN last.rets
      /\ last.rets[o].how = "rejected"
      /\ sockets = last.pre.sockets

\* the part of C17 that holds: on a connected client the error is raised in
\* the call, and nothing is allocated or sent
C17_ConnectedRaisesAtCall ==
  \A o \in Ops :
    (Refused(o) /\ last.ev = "call" /\ last.arg = o /\ last.pre.connected) =>
      /\ o \in DOMAIN last.rets
      /\ last.rets[o].val.err = ops[o].srch.input
      /\ sockets = last.pre.sockets
      /\ messageId = last.pre.messageId
      /\ table = last.pre.table

\* a search with a filter that does not parse, called on a client that had
\* no connection, left the call with a socket connecting and no error yet
C17_ConnectsFirst ==
  \E o \in Ops :
    /\ Refused(o) /\ ops[o].srch.input = "filter"
    /\ last.ev = "call" /\ last.arg = o
    /\ ~last.pre.connected
    /\ Len(sockets) = Len(last.pre.sockets) + 1
    /\ sockets[Len(sockets)].st = "connecting"
    /\ o \notin DOMAIN last.rets

\* nothing but the timer bookkeeping of call o changed in the last step
NoEffect(o) ==
  /\ sockets = last.pre.sockets
  /\ connected = last.pre.connected
  /\ socket = last.pre.socket
  /\ table = last.pre.table
  /\ messageId = last.pre.messageId
  /\ last.calls = NoCalls
  /\ \A p \in Ops : ops[p].out = last.pre.ops[p].out /\ ops[p].pc = last.pre.ops[p].pc

\* the timer of the request call o sent last ran in the last step: if the
\* request was pending, its socket was ended and the caller rejected with
\* the timed-out error; if it was settled, nothing happened
LatestTimer(o) ==
  IF last.pre.ops[o].out = "pending"
    THEN /\ last.pre.ops[o].id \in DOMAIN last.pre.table
         /\ sockets = EndSocket(last.pre.sockets,
                                last.pre.table[last.pre.ops[o].id].sock)
         /\ o \in DOMAIN last.rets
         /\ last.rets[o] = [how |-> "rejected",
                            val |-> [err |-> "timeout",
                                     type |-> MsgType(last.pre.ops[o].kind)]]
         /\ \A p \in Ops \ {o} : ops[p] = last.pre.ops[p]
    ELSE NoEffect(o)

\* C20: when the timer of a request fires while the request is pending, the
\* socket that owned it is ended and its caller rejected with the timed-out
\* error; when the request was settled before, the firing has no effect: no
\* socket is ended and no request is affected.  Without a timeout option no
\* timer is armed.
C20_RequestTimeout ==
  /\ last.ev = "timeout" => LatestTimer(last.arg)
  /\ last.ev = "timeoutEarlier" => NoEffect(last.arg)
  /\ ~timeoutOpt => \A o \in Ops : ops[o].timer = "off" /\ ops[o].srch.earlier = 0

\* the part of C20 that holds: the timer of the request a call sent last,
\* and the absence of timers without the option
C20_LatestTimerOnly ==
  /\ last.ev = "timeout" => LatestTimer(last.arg)
  /\ ~timeoutOpt => \A o \in Ops : ops[o].timer = "off" /\ ops[o].srch.earlier = 0

\* the timer of the first page of a paged search, whose request was
\* answered, ran while the second page was pending: the connection was
\* ended, and the search is still waiting
C20_StaleTimerEndsSocket ==
  /\ last.ev = "timeoutEarlier"
  /\ last.pre.connected /\ ~connected
  /\ last.pre.sockets[last.pre.socket].st = "open"
  /\ sockets[socket].st = "ended"
  /\ ops[last.arg].out = "pending"
  /\ last.rets = << >>

\* a pending request timed out
C20_TimedOut ==
  /\ last.ev = "timeout"
  /\ last.pre.ops[last.arg].out = "pending"
  /\ last.arg \in DOMAIN last.rets

\* call o sent a request in the last step
SentNow(o) == ops[o].srch.sent = last.pre.ops[o].srch.sent + 1

\* the timer of call o ran in the last step while its request was pending
TimedOutNow(o) ==
  last.ev = "timeout" /\ last.arg = o /\ last.pre.ops[o].out = "pending"

\* C21: the entry of a request is put into the table when the request is
\* sent, and is out of the table right after its terminal response was
\* handled, right after its timer fired on it, after a socket error, and
\* after the close of its socket.
C21_EntryLifecycle ==
  /\ \A o \in Ops :
        /\ SentNow(o) => ops[o].id \in DOMAIN table /\ table[ops[o].id].op = o
        /\ TimedOutNow(o) => ops[o].id \notin DOMAIN table
  /\ ( /\ last.ev = "response"
       /\ last.arg.id \in DOMAIN last.pre.table
       /\ last.arg.type \in {"SearchResponse", "Other"} ) =>
        last.arg.id \notin DOMAIN table
  /\ last.ev = "socketError" => table = << >>
  /\ last.ev = "close" =>
        \A k \in DOMAIN table : sockets[table[k].sock].id \notin ClosedIds

\* the part of C21 that holds: insertion on send; removal on terminal
\* response and on socket error
C21_InsertedAndRemoved ==
  /\ \A o \in Ops :
        SentNow(o) => ops[o].id \in DOMAIN table /\ table[ops[o].id].op = o
  /\ ( /\ last.ev = "response"
       /\ last.arg.id \in DOMAIN last.pre.table
       /\ last.arg.type \in {"SearchResponse", "Other"} ) =>
        last.arg.id \notin DOMAIN table
  /\ last.ev = "socketError" => table = << >>

\* a request timed out and was rejected, and its entry is still in the
\* table, on a socket that is ended and not yet closed
C21_EntryAfterTimeout ==
  \E o \in Ops :
    /\ TimedOutNow(o)
    /\ ops[o].out = "rejected"
    /\ ops[o].id \in DOMAIN table
    /\ table[ops[o].id].op = o
    /\ sockets[table[ops[o].id].sock].st = "ended"

\* the parser error of the last step carried the id of a pending request
ParserErrorFor(o) ==
  /\ last.ev = "parserError"
  /\ last.pre.table[last.arg].op = o
  /\ last.pre.ops[o].out = "pending"

\* C22: a decode error carrying the message id of a pending request removes
\* that request's entry and rejects that request; every other call and
\* entry is as before, no socket is touched and isConnected is unchanged.
\* A decode error whose id matches no entry changes nothing.
C22_DecodeErrorRejectsOwner ==
  /\ \A o \in Ops :
        ParserErrorFor(o) =>
          /\ table = Remove(last.pre.table, last.arg)
          /\ last.calls = Reject(o, "parser", last.pre.ops[o].kind)
          /\ last.rets = last.calls
          /\ ops[o].out = "rejected"
          /\ \A p \in Ops \ {o} : ops[p] = last.pre.ops[p]
          /\ sockets = last.pre.sockets
          /\ socket = last.pre.socket
          /\ connected = last.pre.connected
  /\ last.ev = "parserDrop" =>
        /\ last.arg \notin DOMAIN last.pre.table
        /\ table = last.pre.table
        /\ ops = last.pre.ops
        /\ sockets = last.pre.sockets
        /\ socket = last.pre.socket
        /\ connected = last.pre.connected
        /\ messageId = last.pre.messageId

\* a decode error rejected one of two pending requests
C22_Witness ==
  \E o \in Ops, p \in Ops :
    /\ o # p
    /\ ParserErrorFor(o)
    /\ ops[o].out = "rejected"
    /\ last.pre.ops[p].out = "pending"
    /\ last.arg \notin DOMAIN table

\* C23 as stated: a decode error rejects every pending request and the
\* client is no longer connected.
C23_DecodeErrorRejectsAll ==
  last.ev = "parserError" =>
    /\ \A p \in Ops : last.pre.ops[p].out = "pending" => ops[p].out = "rejected"
    /\ ~connected

\* C23: a decode error is surfaced to the caller whose message id it
\* carries and to nobody else: every other pending request stays pending
\* with its entry, and the client stays as connected as it was.
C23_DecodeErrorSparesOthers ==
  last.ev = "parserError" =>
    /\ DOMAIN last.calls = {last.pre.table[last.arg].op}
    /\ \A p \in Ops \ {last.pre.table[last.arg].op} :
          last.pre.ops[p].out = "pending" =>
            /\ ops[p].out = "pending"
            /\ ops[p].id \in DOMAIN last.pre.table => ops[p].id \in DOMAIN table
    /\ connected = last.pre.connected

\* a decode error arrived on a connected client with two pending requests:
\* one is still pending and the client still connected
C23_Witness ==
  /\ last.ev = "parserError"
  /\ connected
  /\ \E p \in Ops :
        /\ p # last.pre.table[last.arg].op
        /\ last.pre.ops[p].out = "pending"
        /\ ops[p].out = "pending"
        /\ ops[p].id \in DOMAIN table

\* the request of call o has been handed to socket.write
Wrote(o) == ops[o].srch.sent > 0

\* C26: requests are written in the order their operations were called: of
\* two calls whose requests have been written, the one called first was
\* written first and has the smaller message id, also when both calls were
\* made before the connection was established.
C26_WrittenInCallOrder ==
  \A p \in Ops, o \in Ops :
    (p < o /\ Wrote(p) /\ Wrote(o)) => ops[p].id < ops[o].id

\* the part of C26 that holds: calls made on a connected client are
\* written in the call itself, hence in call order
C26_ConnectedWritesAtCall ==
  \A o \in Ops :
    ( /\ last.ev = "call" /\ last.arg = o
      /\ last.pre.connected /\ last.pre.socket # 0
      /\ ops[o].kind \in {"add", "startTLS", "unbind"} ) =>
        /\ Wrote(o)
        /\ \A p \in Ops : (p # o /\ Wrote(p)) => ops[p].id < ops[o].id

\* two calls were made before any connection existed; the second call's
\* socket connected first and its request was written first, with the
\* smaller id
C26_SecondCallFirst ==
  /\ Wrote(1) /\ Wrote(2)
  /\ ops[2].id < ops[1].id
  /\ last.ev = "connect"
  /\ last.pre.ops[1].pc = "connect"

\* call o has a request in the table that was sent on socket s
PendingOn(o, s) ==
  /\ ops[o].id \in DOMAIN table
  /\ table[ops[o].id].op = o
  /\ table[ops[o].id].sock = s

\* the request of call o is settled and has no entry
Drained(o) ==
  /\ ops[o].out # "pending"
  /\ \A k \in DOMAIN table : table[k].op # o

\* C24: no pending entry is leaked: when the socket that owns a request is
\* gone (ended, failed, destroyed or closed) and the close events of
\* torn-down sockets are delivered, the request is eventually settled and
\* out of the table.
C24_NoEntryLeaked ==
  \A o \in Ops : \A s \in 1..MaxSockets :
    [](( /\ s \in DOMAIN sockets
         /\ PendingOn(o, s)
         /\ sockets[s].st \in {"ended", "errored", "destroyed", "closed"} )
       => <>Drained(o))

\* the part of C24 about the tear-down itself: a request that is in the
\* table when its socket has been torn down and has not closed yet is
\* eventually settled and out of the table
C24_TornDownDrains ==
  \A o \in Ops : \A s \in 1..MaxSockets :
    [](( /\ s \in DOMAIN sockets
         /\ PendingOn(o, s)
         /\ sockets[s].st \in {"ended", "errored", "destroyed"} )
       => <>Drained(o))

\* after a StartTLS splice the connection closed; the client still counts
\* itself connected, on the closed TLS socket, and a request sent since is
\* pending in the table with no event left that could settle it but its
\* own timer
C24_SentOnClosedSocket ==
  \E o \in Ops :
    /\ connected
    /\ socket # 0
    /\ sockets[socket].tlsOp # 0
    /\ sockets[socket].st = "closed"
    /\ PendingOn(o, socket)
    /\ ops[o].out = "pending"
    /\ \A s \in DOMAIN sockets : sockets[s].st = "closed"

\* the payloads, in order, of the records of one type in a delivery history
PayloadsOf(got, type) ==
  LET sel == SelectSeq(got, LAMBDA r : r.type = type)
  IN [i \in 1..Len(sel) |-> sel[i].payload]

\* call o's search is pending and its current request is in the table
Collecting(o) ==
  /\ ops[o].kind = "search"
  /\ ops[o].out = "pending"
  /\ ops[o].id \in DOMAIN table
  /\ table[ops[o].id].op = o

\* C25: the entries and the references a search has collected, those of
\* its completed pages followed by those buffered for the page in
\* progress, are at every moment the payloads of the SearchEntry and of
\* the SearchReference records delivered to it, in the order of delivery,
\* whatever responses to other requests arrived in between; and the
\* result it resolves with holds exactly these two sequences.
C25_ServerOrderPreserved ==
  \A o \in Ops :
    /\ Collecting(o) =>
          /\ ops[o].srch.entries \o table[ops[o].id].searchEntries
               = PayloadsOf(ops[o].srch.got, "SearchEntry")
          /\ ops[o].srch.references \o table[ops[o].id].searchReferences
               = PayloadsOf(ops[o].srch.got, "SearchReference")
    /\ ( /\ SearchAnswered(o)
         /\ last.pre.ops[o].out = "pending"
         /\ last.rets[o].how = "resolved" ) =>
          /\ last.rets[o].val.searchEntries
               = PayloadsOf(ops[o].srch.got, "SearchEntry")
          /\ last.rets[o].val.searchReferences
               = PayloadsOf(ops[o].srch.got, "SearchReference")

\* a paged search resolves with the two different entries of its first
\* page followed by the entry of its second, after the response to the
\* add that was pending beside it arrived while the second page was in
\* progress
C25_Witness ==
  \E o \in Ops :
    /\ SearchAnswered(o)
    /\ last.rets[o].how = "resolved"
    /\ last.pre.ops[o].srch.paged
    /\ last.pre.ops[o].srch.entries = <<"a", "b">>
    /\ last.rets[o].val.searchEntries = <<"a", "b", "a">>
    /\ ops[1].out = "resolved"

\* the response to the pending add arrives between the records of the
\* second page of a paged search
C25_Interleaved ==
  \E o \in Ops :
    /\ last.ev = "response"
    /\ last.arg.id = 2
    /\ last.arg.type = "Other"
    /\ Collecting(o)
    /\ ops[o].srch.paged
    /\ Len(ops[o].srch.entries) > 0
    /\ Len(table[ops[o].id].searchEntries) > 0

\* filter.matches has returned for an And filter, for an Or filter
Evaluated(type) == last.ev = "matches" /\ last.arg.filter.type = type

\* what the children of the filter evaluated return for the same entry
ChildMatches ==
  [i \in 1..Len(last.arg.filter.filters) |->
     Matches(last.arg.filter.filters[i], last.arg.objectToCheck,
             last.arg.strictAttributeCase)]

\* C27: an And filter without children matches every entry and an Or
\* filter without children matches none; with children, an And filter
\* matches exactly when all its children match and an Or filter exactly
\* when one of them does.
C27_AndOrBoundary ==
  /\ Evaluated("and") =>
        last.rets = (\A i \in DOMAIN ChildMatches : ChildMatches[i])
  /\ Evaluated("or") =>
        last.rets = (\E i \in DOMAIN ChildMatches : ChildMatches[i])

\* all of C27 but the empty Or filter: an And filter matches exactly when
\* all its children do, every entry when it has none, and an Or filter
\* with children matches exactly when one of them does
C27_ButEmptyOr ==
  /\ Evaluated("and") =>
        last.rets = (\A i \in DOMAIN ChildMatches : ChildMatches[i])
  /\ (Evaluated("or") /\ Len(last.arg.filter.filters) > 0) =>
        last.rets = (\E i \in DOMAIN ChildMatches : ChildMatches[i])

\* an Or filter without children has matched an entry
C27_EmptyOrMatched ==
  /\ Evaluated("or")
  /\ Len(last.arg.filter.filters) = 0
  /\ last.rets = TRUE

\* FilterParser.parse has returned for the encoding of a filter
Decoded == last.ev = "parse"

RECURSIVE LowerCased(_)
\* the filter with the attribute name of every equality filter in lower
\* case, and its value too where the attribute is objectclass
LowerCased(f) ==
  CASE f.type \in {"and", "or"} ->
         [f EXCEPT !.filters = [i \in 1..Len(f.filters) |-> LowerCased(f.filters[i])]]
    [] f.type = "not" -> [f EXCEPT !.filter = LowerCased(f.filter)]
    [] OTHER ->
         [f EXCEPT !.attribute = ToLowerCase(f.attribute),
                   !.value = IF ToLowerCase(f.attribute)
                                 = Str(<<"o", "b", "j", "e", "c", "t",
                                         "c", "l", "a", "s", "s">>)
                               THEN ToLowerCase(f.value) ELSE f.value]

\* C28 as stated: decoding the BER encoding of a filter yields a filter
\* structurally equal to it: same variant, attribute, value and children
\* in the same order.
C28_BinaryRoundTrip == Decoded => last.rets = last.arg.filter

\* C28: decoding the BER encoding of a filter built from And, Or, Not and
\* equality filters with string values yields the same tree, same variants
\* and children in the same order, in which every equality filter has its
\* attribute name in lower case, and its value in lower case where the
\* attribute is objectclass, and unchanged otherwise; so the result is
\* structurally equal to the filter when the filter is in that form.
C28_DecodesLowerCased ==
  Decoded =>
    /\ last.rets = LowerCased(last.arg.filter)
    /\ last.arg.filter = LowerCased(last.arg.filter) => last.rets = last.arg.filter

\* an And filter of an equality filter on CN and one on objectClass was
\* encoded and decoded, and an And filter with the names and the
\* objectclass value in lower case came back
C28_Witness ==
  /\ Decoded
  /\ last.arg.filter.type = "and"
  /\ Len(last.arg.filter.filters) = 2
  /\ last.arg.filter.filters[1].type = "equalityMatch"
  /\ last.arg.filter.filters[1].attribute = Str(<<"C", "N">>)
  /\ last.arg.filter.filters[2].type = "equalityMatch"
  /\ last.arg.filter.filters[2].value = Str(<<"A">>)
  /\ last.rets.type = "and"
  /\ last.rets.filters[1].attribute = Str(<<"c", "n">>)
  /\ last.rets.filters[2].value = Str(<<"a">>)

\* a filter whose names are in lower case came back as it was: an Or of
\* two equality filters under a Not
C28_SameReached ==
  /\ Decoded
  /\ last.arg.filter.type = "not"
  /\ last.arg.filter.filter.type = "or"
  /\ Len(last.arg.filter.filter.filters) = 2
  /\ last.rets = last.arg.filter

\* the text of a filter that parseString returned was parsed again
ParsedAgain == last.ev = "parseAgain"

\* the filter text (&(cn=Jim*)(!(uid=2)))
JimText ==
  Str(<<"(", "&", "(", "c", "n", "=", "J", "i", "m", "*", ")",
        "(", "!", "(", "u", "i", "d", "=", "2", ")", ")", ")">>)

\* the filter And[Substring(cn, initial = Jim), Not(Equality(uid, 2))]
JimFilter ==
  AndFilter(<<[type |-> "substrings", attribute |-> Str(<<"c", "n">>),
               initial |-> Str(<<"J", "i", "m">>), any |-> << >>, final |-> << >>],
              NotFilter(EqualityFilter(Str(<<"u", "i", "d">>), Str(<<"2">>)))>>)

C29_JimReached ==
  /\ ParsedAgain
  /\ last.arg.filterString = JimText
  /\ last.rets.again.filter = JimFilter

\* RDN.equals has returned
Compared == last.ev = "equals"

\* every pair of a has a pair in b with the same name, letter case
\* ignored or not, and the same value
Within(a, b, ignoreCase) ==
  \A i \in 1..Len(a) : \E j \in 1..Len(b) :
    /\ IF ignoreCase
         THEN ToLowerCase(a[i].name) = ToLowerCase(b[j].name)
         ELSE a[i].name = b[j].name
    /\ a[i].value = b[j].value

\* C30: RDN.equals(a, b) is true exactly when a and b hold the same
\* attribute names, letter case and insertion order ignored, each with
\* the same value, letter case of the value respected; it is reflexive
\* and symmetric.
C30_RdnEquals ==
  Compared =>
    /\ last.rets = ( /\ Within(last.arg.this, last.arg.other, TRUE)
                     /\ Within(last.arg.other, last.arg.this, TRUE) )
    /\ last.arg.this = last.arg.other => last.rets
    /\ last.rets = RDNEquals(last.arg.other, last.arg.this)

\* C30 with the names compared as they are written: RDN.equals(a, b) is
\* true exactly when a and b hold the same attribute names, in any
\* order, each with the same value, letter case respected in both; it is
\* reflexive and symmetric
C30_NamesAsWritten ==
  Compared =>
    /\ last.rets = ( /\ Within(last.arg.this, last.arg.other, FALSE)
                     /\ Within(last.arg.other, last.arg.this, FALSE) )
    /\ last.arg.this = last.arg.other => last.rets
    /\ last.rets = RDNEquals(last.arg.other, last.arg.this)

\* an RDN with the one name CN was compared with an RDN with the one name
\* cn and the same value, and equals returned false
C30_CaseDiffers ==
  /\ Compared
  /\ Len(last.arg.this) = 1
  /\ Len(last.arg.other) = 1
  /\ last.arg.this[1].name = Str(<<"C", "N">>)
  /\ last.arg.other[1].name = Str(<<"c", "n">>)
  /\ last.arg.this[1].value = last.arg.other[1].value
  /\ last.rets = FALSE

\* two RDNs with the same two pairs, set in different order, were found
\* equal
C30_OrderIgnored ==
  /\ Compared
  /\ Len(last.arg.this) = 2
  /\ last.arg.this # last.arg.other
  /\ last.rets = TRUE

\* ---------------------------------------------------------------- C31
\* rdn.toString() has returned
RdnWritten == last.ev = "RDN.toString"

\* the number of characters of S among the first i characters of value
CountOf(value, i, S) == Cardinality({j \in 1..i : value[j] \in S})

\* out is value with a backslash put before each character of S and
\* nothing else added
EmitsEscaped(value, out, S) ==
  /\ Len(out) = Len(value) + CountOf(value, Len(value), S)
  /\ \A i \in 1..Len(value) :
       /\ out[i + CountOf(value, i, S)] = value[i]
       /\ value[i] \in S => out[i + CountOf(value, i, S) - 1] = Ord["\\"]

\* seg is name=value, the value with the characters of S escaped and in
\* double quotes when it starts or ends with a space
PieceIs(seg, pair, S) ==
  /\ Len(seg) >= Len(pair.name) + 1
  /\ SubSeq(seg, 1, Len(pair.name)) = pair.name
  /\ seg[Len(pair.name) + 1] = Ord["="]
  /\ LET body == SubSeq(seg, Len(pair.name) + 2, Len(seg))
     IN IF Len(pair.value) > 0
           /\ (pair.value[1] = Ord[" "] \/ pair.value[Len(pair.value)] = Ord[" "])
        THEN /\ Len(body) >= 2
             /\ body[1] = Ord["\""]
             /\ body[Len(body)] = Ord["\""]
             /\ EmitsEscaped(pair.value, SubSeq(body, 2, Len(body) - 1), S[TRUE])
        ELSE EmitsEscaped(pair.value, body, S[FALSE])

\* text is the pieces of the pairs of rdn in the order they were set, with
\* a '+' between two pieces
JoinedPieces(text, rdn, S) ==
  IF Len(rdn) = 0 THEN text = << >>
  ELSE \E cut \in [1..(Len(rdn) - 1) -> 1..Len(text)] :
         LET from(i) == IF i = 1 THEN 1 ELSE cut[i - 1] + 1
             to(i) == IF i = Len(rdn) THEN Len(text) ELSE cut[i] - 1
         IN /\ \A i \in 1..(Len(rdn) - 1) : text[cut[i]] = Ord["+"]
            /\ \A i \in 1..Len(rdn) :
                 /\ from(i) <= to(i)
                 /\ PieceIs(SubSeq(text, from(i), to(i)), rdn[i], S)

\* the nine characters , \ # + < > ; " =
NineChars ==
  {Ord[","], Ord["\\"], Ord["#"], Ord["+"], Ord["<"], Ord[">"], Ord[";"],
   Ord["\""], Ord["="]}

Renamed == last.ev = "modifyDN"

\* the number of backslashes right before position i of str
RECURSIVE BackslashesBefore(_, _)
BackslashesBefore(str, i) ==
  IF i > 1 /\ str[i - 1] = Ord["\\"] THEN 1 + BackslashesBefore(str, i - 1) ELSE 0

\* position i of str holds a comma that is not escaped by a backslash
UnescapedCommaAt(str, i) ==
  str[i] = Ord[","] /\ BackslashesBefore(str, i) % 2 = 0

\* position i of str holds a comma with no backslash right before it
BareCommaAt(str, i) ==
  str[i] = Ord[","] /\ (i = 1 \/ str[i - 1] # Ord["\\"])

\* the request req splits newDN at its first comma of the kind At, or
\* carries all of it as newRdn when it has none
SplitsAtFirst(CommaAt(_, _), newDN, req) ==
  /\ req.deleteOldRdn
  /\ IF \E i \in 1..Len(newDN) : CommaAt(newDN, i)
     THEN LET first == CHOOSE i \in 1..Len(newDN) :
                         CommaAt(newDN, i) /\ \A j \in 1..(i - 1) : ~CommaAt(newDN, j)
          IN /\ req.newRdn = SubSeq(newDN, 1, first - 1)
             /\ req.newSuperior.defined
             /\ req.newSuperior.text = SubSeq(newDN, first + 1, Len(newDN))
     ELSE req.newRdn = newDN /\ ~req.newSuperior.defined

\* C32: modifyDN with a string newDN that holds a comma not escaped by a
\* backslash sends newRdn = the text before the first such comma and
\* newSuperior = the text after it; with no such comma newRdn is newDN and
\* newSuperior is absent; deleteOldRdn is always true.
C32_SplitsAtFirstUnescapedComma ==
  Renamed => SplitsAtFirst(UnescapedCommaAt, last.arg.newDN, last.rets)

\* C32 with "not escaped" read as "no backslash right before it"
C32_SplitsAtFirstBareComma ==
  Renamed => SplitsAtFirst(BareCommaAt, last.arg.newDN, last.rets)

\* C32 for a newDN that starts with a character other than a comma and
\* holds no two backslashes in a row
C32_SplitsPlainDN ==
  Renamed /\ Len(last.arg.newDN) > 0 /\ last.arg.newDN[1] # Ord[","]
          /\ (\A i \in 2..Len(last.arg.newDN) :
                ~(last.arg.newDN[i] = Ord["\\"] /\ last.arg.newDN[i - 1] = Ord["\\"]))
    => SplitsAtFirst(UnescapedCommaAt, last.arg.newDN, last.rets)

\* a newDN with an escaped comma before the separating comma was split at
\* the second of them
C32_EscapedCommaSkipped ==
  /\ Renamed
  /\ last.arg.newDN = Str(<<"\\", ",", "a", ",">>)
  /\ last.rets.newRdn = Str(<<"\\", ",", "a">>)
  /\ last.rets.newSuperior = [defined |-> TRUE, text |-> << >>]

\* ---------------------------------------------------------------- C33
\* search has made the controls of its first request
Searched == last.ev = "search"

\* the controls are one Paged-Results control of this size with an empty
\* cookie
OnePagedControl(controls, size) ==
  /\ Len(controls) = 1
  /\ controls[1].type = "PagedResultsControl"
  /\ controls[1].value.size = size
  /\ controls[1].value.cookie = << >>

\* options.paged is truthy
PagedTruthy(paged) ==
  paged.type = "object" \/ (paged.type = "boolean" /\ paged.value = TRUE)

\* C33 as stated: the Paged-Results control is injected if and only if
\* options.paged is truthy, with size paged.pageSize when one is given,
\* otherwise sizeLimit - 1 when a sizeLimit > 1 is set, otherwise 100, and
\* with an empty cookie.
C33_PageSizeAsGiven ==
  Searched =>
    LET o == last.arg.options IN
    IF PagedTruthy(o.paged)
      THEN OnePagedControl(last.rets,
             IF o.paged.type = "object" /\ o.paged.pageSize.defined
               THEN o.paged.pageSize.n
             ELSE IF o.sizeLimit.defined /\ o.sizeLimit.n > 1
               THEN o.sizeLimit.n - 1
             ELSE 100)
      ELSE last.rets = << >>

\* C33: the Paged-Results control is injected if and only if options.paged
\* is truthy, with size paged.pageSize when one is given and is not 0,
\* otherwise sizeLimit - 1 when a sizeLimit > 1 is set, otherwise 100, and
\* with an empty cookie.
C33_PageSizeUnlessZero ==
  Searched =>
    LET o == last.arg.options IN
    IF PagedTruthy(o.paged)
      THEN OnePagedControl(last.rets,
             IF o.paged.type = "object" /\ o.paged.pageSize.defined
                  /\ o.paged.pageSize.n # 0
               THEN o.paged.pageSize.n
             ELSE IF o.sizeLimit.defined /\ o.sizeLimit.n > 1
               THEN o.sizeLimit.n - 1
             ELSE 100)
      ELSE last.rets = << >>

\* a search paged with { pageSize: 0 } and sizeLimit 3 asked for pages of 2
C33_ZeroPageSizeIgnored ==
  /\ Searched
  /\ last.arg.options.paged.type = "object"
  /\ last.arg.options.paged.pageSize = [defined |-> TRUE, n |-> 0]
  /\ last.arg.options.sizeLimit = [defined |-> TRUE, n |-> 3]
  /\ OnePagedControl(last.rets, 2)

\* a search paged with { pageSize: 1 } and sizeLimit 3 asked for pages of 1
C33_PageSizeGiven ==
  /\ Searched
  /\ last.arg.options.paged.type = "object"
  /\ last.arg.options.paged.pageSize = [defined |-> TRUE, n |-> 1]
  /\ last.arg.options.sizeLimit = [defined |-> TRUE, n |-> 3]
  /\ OnePagedControl(last.rets, 1)

\* ---------------------------------------------------------------- C34
\* C34: the socket error and close handlers are idempotent on the table of
\* pending requests: when the close event of a socket follows its error
\* event, socketClose finds no entry of that socket, settles no request
\* and leaves every table entry as it is.
C34_CloseAfterErrorIdle ==
  [][(/\ last.ev = "socketError"
      /\ last'.ev = "close"
      /\ last.arg \in Linked(sockets, last'.arg))
       => (/\ CloseKeys(table, sockets, {sockets[last.arg].id}) = {}
           /\ last'.calls = NoCalls
           /\ table' = table)]_vars

\* socketClose ran on the socket that socketError had destroyed after
\* rejecting a request: the table was empty and nothing was settled
C34_ClosedAfterError ==
  /\ last.ev = "close"
  /\ last.pre.sockets[last.arg].st = "destroyed"
  /\ last.pre.sockets[last.arg].err = "socketError"
  /\ last.pre.table = << >>
  /\ last.calls = NoCalls
  /\ \E o \in Ops : ops[o].kind = "add" /\ ops[o].out = "rejected"

\* ---------------------------------------------------------------- C35
\* the sockets _connect has created whose connect is in progress
Connecting ==
  {s \in DOMAIN sockets : sockets[s].tlsOp = 0 /\ sockets[s].st = "connecting"}

\* no socket _connect created is open without the handlers of _onConnect
NoSocketLeftBare ==
  \A s \in DOMAIN sockets :
    sockets[s].tlsOp = 0 /\ sockets[s].st = "open" => sockets[s].wired

\* C35: for the public operations called on a client that is not yet
\* connected at most one transport socket is opened: no second socket is
\* created while a connect is in progress, and no opened socket is left
\* without the client's handlers and without being closed.
C35_OneSocketPerConnect ==
  /\ Cardinality(Connecting) <= 1
  /\ NoSocketLeftBare

\* the second half of C35 alone: no opened socket is left without the
\* client's handlers and without being closed
C35_NoSocketLeftBare == NoSocketLeftBare

\* ---------------------------------------------------------------- C36
\* C36: when public operations are called on a client that is not yet
\* connected and the transport becomes ready, the connect step of every
\* one of them completes (and the operation goes on to write its request):
\* none waits forever on its connect promise.
C36_ConnectStepsComplete ==
  \A o \in Ops : (ops[o].pc = "connect") ~> (ops[o].pc # "connect")

\* an operation awaits a connect promise that nothing can settle any more:
\* the socket it created is open and has lost its connect listener
C36_WaitsForever ==
  \E o \in Ops, s \in DOMAIN sockets :
    /\ ops[o].pc = "connect"
    /\ sockets[s].waiter = o
    /\ sockets[s].tlsOp = 0
    /\ sockets[s].st = "open"
    /\ ~sockets[s].conn

\* ---------------------------------------------------------------- C37
\* the socket the client is using has emitted 'close'
TransportClosed(cur, ss) == cur # 0 /\ ss[cur].st = "closed"

\* C37: isConnected is false whenever the client's transport has closed,
\* and a public operation called then reconnects instead of writing to
\* the closed socket; also when the connection was upgraded by startTLS
\* and the original socket is the one that emits 'close'.
C37_ClosedMeansNotConnected ==
  /\ TransportClosed(socket, sockets) => ~connected
  /\ \A o \in Ops :
       /\ last.ev = "call"
       /\ last.arg = o
       /\ ops[o].kind \in {"add", "startTLS"}
       /\ TransportClosed(last.pre.socket, last.pre.sockets)
       => ops[o].pc = "connect"

\* C37 for the first connection of a client, not upgraded by startTLS
C37_PlainClosedMeansNotConnected ==
  last.ev = "close" /\ Len(sockets) = 1 => ~connected /\ socket = 0

\* C37 for a connection upgraded by startTLS, the only one the client has
\* opened
C37_UpgradedClosedMeansNotConnected ==
  /\ TransportClosed(socket, sockets)
  /\ sockets[socket].under # 0
  /\ Len(sockets) = 2
  => ~connected

\* an add was called after the transport of a connection upgraded by
\* startTLS had closed, and wrote its request to the closed TLS socket
C37_WroteToClosedSocket ==
  \E o \in Ops :
    /\ last.ev = "call"
    /\ last.arg = o
    /\ ops[o].kind = "add"
    /\ TransportClosed(last.pre.socket, last.pre.sockets)
    /\ last.pre.sockets[last.pre.socket].tlsOp # 0
    /\ last.pre.connected
    /\ ops[o].pc = "sent"

\* ---------------------------------------------------------------- C38
\* a startTLS handshake is in progress on the connection
Upgrading ==
  \E t \in DOMAIN sockets : sockets[t].tlsOp # 0 /\ sockets[t].st = "connecting"

\* C38: whenever isConnected is true (and no TLS handshake is under way)
\* the data handler is attached to the socket in use, so that the bytes
\* arriving on it are fed to the message parser; in particular after a
\* startTLS call that rejected.
C38_DataHandlerOnCurrentSocket ==
  connected /\ socket # 0 /\ Alive(sockets, socket) /\ ~Upgrading
    => sockets[socket].data

\* startTLS rejected on a TLS error, and an add called afterwards wrote its
\* request to the open original socket, which has no data handler
C38_SentUnheard ==
  \E o, p \in Ops :
    /\ ops[o].kind = "startTLS"
    /\ ops[o].pc = "done"
    /\ ops[p].kind = "add"
    /\ ops[p].out = "pending"
    /\ connected
    /\ socket # 0
    /\ sockets[socket].st = "open"
    /\ sockets[socket].tlsOp = 0
    /\ ~sockets[socket].data
    /\ ~Upgrading
    /\ \A id \in DOMAIN table : table[id].op = p => table[id].sock = socket

\* ---------------------------------------------------------------- C39
\* FilterParser.parseString has returned or thrown
ParsedText == last.ev = "parseString"

\* the string in parentheses unless it starts with one
InParens(text) ==
  IF Len(text) > 0 /\ text[1] = Ord["("] THEN text
  ELSE Str(<<"(">>) \o text \o Str(<<")">>)

\* the parentheses open after the first i characters of text
Depth(text, i) ==
  Cardinality({j \in 1..i : text[j] = Ord["("]})
    - Cardinality({j \in 1..i : text[j] = Ord[")"]})

\* every '(' of text has its ')' after it
Balanced(text) ==
  /\ \A i \in 1..Len(text) : Depth(text, i) >= 0
  /\ Depth(text, Len(text)) = 0

\* text goes on after the parenthesis that closes its first one
TextAfterClose(text) ==
  \E i \in 1..(Len(text) - 1) : Depth(text, i) = 0

\* C39: FilterParser.parseString throws for every filter string whose
\* parentheses are unbalanced (an And, Or or Not without its closing
\* parenthesis included), for a string with text after the closing
\* parenthesis and for the empty string; a string without a leading '(' is
\* put in parentheses before it is parsed.
C39_RejectsUnbalanced ==
  ParsedText =>
    /\ Len(last.arg.filterString) = 0 => last.rets.err
    /\ ~Balanced(InParens(last.arg.filterString)) => last.rets.err
    /\ TextAfterClose(InParens(last.arg.filterString)) => last.rets.err
    /\ last.rets = ParseString(InParens(last.arg.filterString))

\* C39 without its unbalanced strings: parseString throws for the empty
\* string and for a string with text after the parenthesis that closes its
\* first one, and parses a string without a leading '(' as that string in
\* parentheses.
C39_RejectsTextAfterClose ==
  ParsedText =>
    /\ Len(last.arg.filterString) = 0 => last.rets.err
    /\ TextAfterClose(InParens(last.arg.filterString)) => last.rets.err
    /\ Len(last.arg.filterString) > 0
         => last.rets = ParseString(InParens(last.arg.filterString))

\* (&(cn=a) was parsed as the And filter of (cn=a)
C39_UnclosedAndAccepted ==
  /\ ParsedText
  /\ last.arg.filterString = Str(<<"(", "&", "(", "c", "n", "=", "a", ")">>)
  /\ ~last.rets.err
  /\ last.rets.filter.type = "and"

\* ---------------------------------------------------------------- C40
\* the compare calls whose request the response just handled answered
CompareAnswered ==
  {o \in Ops : /\ last.ev = "response"
               /\ o \in DOMAIN last.rets
               /\ last.pre.ops[o].kind = "compare"
               /\ last.pre.ops[o].out = "pending"}

\* C40: compare() resolves true when the response status is compareTrue,
\* resolves false when it is compareFalse, and rejects with the error of
\* the status-code mapper for every other status, Success (0) included.
C40_CompareBySwitch ==
  \A o \in CompareAnswered :
    /\ last.arg.status = 6 =>
         last.rets[o] = [how |-> "resolved", val |-> [type |-> "boolean", value |-> TRUE]]
    /\ last.arg.status = 5 =>
         last.rets[o] = [how |-> "resolved", val |-> [type |-> "boolean", value |-> FALSE]]
    /\ last.arg.status \notin {5, 6} =>
         last.rets[o] = [how |-> "rejected",
                         val |-> [err |-> "status", status |-> last.arg.status]]

\* a compare was answered with status Success and rejected
C40_SuccessRejected ==
  \E o \in CompareAnswered :
    /\ last.arg.status = 0
    /\ last.rets[o].how = "rejected"
    /\ ops[o].pc = "done"

\* a compare was answered compareTrue and resolved true
C40_TrueResolved ==
  \E o \in CompareAnswered :
    /\ last.arg.status = 6
    /\ last.rets[o].how = "resolved"
    /\ last.rets[o].val.value = TRUE

====
